---- MODULE Spec2Model ----
(***************************************************************************)
(* Model of the Markdown subsystem of text-tool:                           *)
(*   parse_outline / nest_entries      (src/src/app/file_manager.rs)       *)
(*   render_markdown and its helpers   (src/src/app/panel/markdown.rs)     *)
(* Strings are sequences of bytes; a byte is a one-character string, and   *)
(* the two bytes "C3" "A9" stand for one two-byte UTF-8 character.          *)
(* Byte offsets are 0-based as in the source; Slice(s, a, b) is &s[a..b].  *)
(***************************************************************************)
EXTENDS Integers, Sequences, FiniteSets, TLC

VARIABLES
    text,           \* the input string of the running function
    spans,          \* how the input line was put together, where that is known
    pc,             \* position of the running function
    i,              \* build_inline_job: cursor
    plain_start,    \* build_inline_job: start of the pending plain stretch
    job,            \* build_inline_job: the LayoutJob's sections, in order
    cuts,           \* build_inline_job: the byte offsets it has sliced the text at
    panicked,       \* TRUE once an index or a slice was out of range
    ret,            \* return value of a helper function
    arg_n,          \* strip_heading: the argument n
    line_no,        \* line loops: number of lines consumed so far
    entries,        \* parse_outline: the flat (level, title) list
    outline,        \* parse_outline: the returned tree
    in_code_block,  \* render_markdown: inside a fence
    code_lines,     \* render_markdown: lines buffered inside the fence
    blocks,         \* render_markdown: the widgets emitted, in order
    world_objects,      \* objects panel: the WorldObject list
    selected_obj_idx,   \* objects panel: Option<usize> into world_objects
    struct_roots,       \* structure panel: the root StructNodes
    selected_node_path, \* structure panel: index path of the selected node
    left_file,          \* editors: Option<OpenFile> of the left pane
    right_file,         \* editors: Option<OpenFile> of the right pane
    left_undo_stack,    \* editors: VecDeque<String> of the left pane
    right_undo_stack,   \* editors: VecDeque<String> of the right pane
    last_focused_left,  \* editors: which pane Ctrl+Z applies to
    left_before_change, \* history: left content before its latest change
    right_before_change,\* history: right content before its latest change
    frames,             \* editors: number of frames that handled an event
    event               \* editors: the input event the latest frame handled

objVars == <<world_objects, selected_obj_idx>>
structVars == <<struct_roots, selected_node_path>>
editorVars == <<left_file, right_file, left_undo_stack, right_undo_stack,
                last_focused_left, left_before_change, right_before_change,
                frames, event>>
panelVars == <<objVars, structVars, editorVars>>

vars == <<text, spans, pc, i, plain_start, job, cuts, panicked, ret, arg_n,
          line_no, entries, outline, in_code_block, code_lines, blocks,
          panelVars>>

inlineVars == <<i, plain_start, job, cuts>>
outlineVars == <<entries, outline>>
renderVars == <<in_code_block, code_lines, blocks>>
helperVars == <<ret, arg_n>>

\* ---------------------------------------------------------------- bounds

MaxInlineLen == 6
MaxSpans == 3
MaxHeadingLen == 8
MaxRuleLen == 5
MaxOrderedLen == 6
MaxDocLen == 6
MaxOutlineLines == 4
MaxFenceLines == 4
MaxBlockLines == 2

\* ------------------------------------------------------- strings of bytes

SeqsUpTo(S, n) == UNION {[1..k -> S] : k \in 0..n}

\* The byte 0x60, the inline-code marker (the lexer takes no grave accent in a
\* string literal, so the byte carries a name).
Backtick == "BQ"

\* The second byte of the two-byte character.
ContinuationBytes == {"A9"}

TwoByteChar == <<"C3", "A9">>

\* str::is_char_boundary
is_char_boundary(s, idx) ==
    \/ idx = 0
    \/ idx = Len(s)
    \/ idx < Len(s) /\ s[idx + 1] \notin ContinuationBytes

\* The bytes of a sequence of characters ("e'" is the two-byte character).
RECURSIVE Utf8(_)
Utf8(chars) ==
    IF chars = <<>> THEN <<>>
    ELSE (IF Head(chars) = "e'" THEN TwoByteChar ELSE <<Head(chars)>>)
         \o Utf8(Tail(chars))

\* &s[a..b] succeeds
SliceOK(s, a, b) ==
    /\ 0 <= a /\ a <= b /\ b <= Len(s)
    /\ is_char_boundary(s, a) /\ is_char_boundary(s, b)

\* &s[a..b]; the empty string stands in where the slice panics.
Slice(s, a, b) == IF SliceOK(s, a, b) THEN SubSeq(s, a + 1, b) ELSE <<>>

starts_with(s, p) == Len(p) <= Len(s) /\ SubSeq(s, 1, Len(p)) = p

contains(s, p) ==
    \E k \in 0..(Len(s) - Len(p)) : SubSeq(s, k + 1, k + Len(p)) = p

RECURSIVE Concat(_)
Concat(ss) == IF ss = <<>> THEN <<>> ELSE Head(ss) \o Concat(Tail(ss))

\* char::is_whitespace, for the characters of the model
Whitespace == {" ", "\t", "\r"}

RECURSIVE trim_start(_)
trim_start(s) ==
    IF s # <<>> /\ Head(s) \in Whitespace THEN trim_start(Tail(s)) ELSE s

RECURSIVE trim_end(_)
trim_end(s) ==
    IF s # <<>> /\ s[Len(s)] \in Whitespace
    THEN trim_end(SubSeq(s, 1, Len(s) - 1))
    ELSE s

trim(s) == trim_end(trim_start(s))

Repeat(c, n) == [k \in 1..n |-> c]

\* str::find: the byte offset of the first occurrence of p, or -1 for None.
find(s, p) ==
    IF contains(s, p)
    THEN CHOOSE k \in 0..(Len(s) - Len(p)) :
            /\ SubSeq(s, k + 1, k + Len(p)) = p
            /\ \A m \in 0..(k - 1) : SubSeq(s, m + 1, m + Len(p)) # p
    ELSE -1

\* Option<T>, and the outcome of a panic inside the function.
None == [some |-> FALSE, val |-> <<>>, panic |-> FALSE]

Some(v) == [some |-> TRUE, val |-> v, panic |-> FALSE]

Panic == [some |-> FALSE, val |-> <<>>, panic |-> TRUE]

\* ------------------------------------------------- render_markdown helpers

\* Mutant: any text after the prefix is taken as the heading text.
strip_heading_NoSpaceCheck(line, n) ==
    IF starts_with(line, Repeat("#", n))
    THEN IF ~SliceOK(line, n, Len(line)) THEN Panic
         ELSE LET after == Slice(line, n, Len(line))
              IN  IF starts_with(after, <<" ">>)
                  THEN Some(trim_end(Slice(after, 1, Len(after))))
                  ELSE Some(trim_end(after))
    ELSE None

\* Mutant: the prefix test is dropped, the slices stay.
strip_heading_Unchecked(line, n) ==
    IF ~SliceOK(line, n, Len(line)) THEN Panic
    ELSE LET after == Slice(line, n, Len(line))
         IN  IF starts_with(after, <<" ">>)
             THEN IF ~SliceOK(after, 1, Len(after)) THEN Panic
                  ELSE Some(trim_end(Slice(after, 1, Len(after))))
             ELSE IF after = <<>> THEN Some(<<>>)
             ELSE None

strip_heading(line, n) ==
    IF starts_with(line, Repeat("#", n))
    THEN IF ~SliceOK(line, n, Len(line)) THEN Panic
         ELSE LET after == Slice(line, n, Len(line))
              IN  IF starts_with(after, <<" ">>)
                  THEN IF ~SliceOK(after, 1, Len(after)) THEN Panic
                       ELSE Some(trim_end(Slice(after, 1, Len(after))))
                  ELSE IF after = <<>> THEN Some(<<>>)
                  ELSE None
    ELSE None

RuleChars == {"-", "*", "_"}

\* Mutant: the count of the rule character is not checked.
is_horizontal_rule_NoCount(line) ==
    LET trimmed == trim(line)
    IN  IF Len(trimmed) < 3 THEN FALSE
        ELSE LET first == trimmed[1]
             IN  IF first \notin RuleChars THEN FALSE
                 ELSE \A k \in 1..Len(trimmed) : trimmed[k] = first \/ trimmed[k] = " "

is_horizontal_rule(line) ==
    LET trimmed == trim(line)
    IN  IF Len(trimmed) < 3 THEN FALSE
        ELSE LET first == trimmed[1]
             IN  IF first \notin RuleChars THEN FALSE
                 ELSE /\ \A k \in 1..Len(trimmed) : trimmed[k] = first \/ trimmed[k] = " "
                      /\ Cardinality({k \in 1..Len(trimmed) : trimmed[k] = first}) >= 3

AsciiDigits == {"0", "1", "2", "3", "4", "5", "6", "7", "8", "9"}

\* Mutant: an empty number is accepted.
parse_ordered_item_AllowEmpty(line) ==
    LET dot == find(line, <<".", " ">>)
    IN  IF dot = -1 THEN None
        ELSE IF ~SliceOK(line, 0, dot) THEN Panic
        ELSE LET num == Slice(line, 0, dot)
             IN  IF \A k \in 1..Len(num) : num[k] \in AsciiDigits
                 THEN IF ~SliceOK(line, dot + 2, Len(line)) THEN Panic
                      ELSE Some(<<num, Slice(line, dot + 2, Len(line))>>)
                 ELSE None

parse_ordered_item(line) ==
    LET dot == find(line, <<".", " ">>)
    IN  IF dot = -1 THEN None
        ELSE IF ~SliceOK(line, 0, dot) THEN Panic
        ELSE LET num == Slice(line, 0, dot)
             IN  IF (\A k \in 1..Len(num) : num[k] \in AsciiDigits) /\ num # <<>>
                 THEN IF ~SliceOK(line, dot + 2, Len(line)) THEN Panic
                      ELSE Some(<<num, Slice(line, dot + 2, Len(line))>>)
                 ELSE None

\* -------------------------------------------------------- build_inline_job

Plain == "Plain"
Bold == "Bold"
Italic == "Italic"
Code == "Code"

Section(t, style) == [text |-> t, style |-> style]

\* job.append(&text[a..b], 0.0, fmt)
AppendSlice(st, s, a, b, style) ==
    IF SliceOK(s, a, b)
    THEN [st EXCEPT !.job = Append(@, Section(Slice(s, a, b), style)),
                    !.cuts = @ \cup {a, b}]
    ELSE [st EXCEPT !.panic = TRUE, !.cuts = @ \cup {a, b}]

\* let t = &text[a..b]; ... if !t.is_empty() { job.append(t, 0.0, fmt) }
AppendSliceIfNonEmpty(st, s, a, b, style) ==
    IF ~SliceOK(s, a, b) THEN [st EXCEPT !.panic = TRUE, !.cuts = @ \cup {a, b}]
    ELSE IF Slice(s, a, b) = <<>> THEN [st EXCEPT !.cuts = @ \cup {a, b}]
    ELSE [st EXCEPT !.job = Append(@, Section(Slice(s, a, b), style)),
                    !.cuts = @ \cup {a, b}]

\* Mutant: the pending plain stretch is appended even when it is empty.
flush_plain_Always(st, s) == AppendSlice(st, s, st.plain_start, st.i, Plain)

\* Mutant: the pending plain stretch is cut one byte short.
flush_plain_ShortByOne(st, s) ==
    IF st.plain_start < st.i
    THEN AppendSlice(st, s, st.plain_start, st.i - 1, Plain)
    ELSE st

\* macro flush_plain!()
flush_plain(st, s) ==
    IF st.plain_start < st.i
    THEN AppendSlice(st, s, st.plain_start, st.i, Plain)
    ELSE st

\* while i + 1 < len { if bytes[i] == b'*' && bytes[i + 1] == b'*' { found } i += 1 }
\* Returns the cursor where the loop ends and whether it found the closer.
RECURSIVE FindBoldClose(_, _)
FindBoldClose(bytes, k) ==
    IF k + 1 < Len(bytes)
    THEN IF bytes[k + 1] = "*" /\ bytes[k + 2] = "*"
         THEN [i |-> k, found_close |-> TRUE]
         ELSE FindBoldClose(bytes, k + 1)
    ELSE [i |-> k, found_close |-> FALSE]

\* Mutant: the search for the closer stops at any marker byte.
RECURSIVE ScanTo_AnyMarker(_, _, _)
ScanTo_AnyMarker(bytes, k, c) ==
    IF k < Len(bytes) /\ bytes[k + 1] \notin {"*", Backtick}
    THEN ScanTo_AnyMarker(bytes, k + 1, c)
    ELSE k

\* while i < len && bytes[i] != c { i += 1 }
RECURSIVE ScanTo(_, _, _)
ScanTo(bytes, k, c) ==
    IF k < Len(bytes) /\ bytes[k + 1] # c THEN ScanTo(bytes, k + 1, c) ELSE k

IsBoldAt(bytes, k) ==
    k + 1 < Len(bytes) /\ bytes[k + 1] = "*" /\ bytes[k + 2] = "*"

IsCodeAt(bytes, k) == bytes[k + 1] = Backtick

\* Mutant: a single '*' never opens a span.
IsItalicAt_Never(bytes, k) == FALSE

IsItalicAt(bytes, k) == bytes[k + 1] = "*"

\* Mutant: the unmatched opener is emitted but the cursor is not set back to
\* open + 2, so the scan resumes where the search for the closer stopped.
BoldBranch_NoReset(st, s) ==
    LET open == st.i
        flushed == flush_plain(st, s)
        start == open + 2
        scan == FindBoldClose(s, start)
        after == IF scan.found_close
                 THEN AppendSliceIfNonEmpty([flushed EXCEPT !.i = scan.i + 2],
                                            s, start, scan.i, Bold)
                 ELSE [flushed EXCEPT !.i = scan.i,
                                      !.job = Append(@, Section(<<"*", "*">>, Plain))]
    IN  [after EXCEPT !.plain_start = after.i]

\* Mutant: after an unmatched opener the cursor goes back to the opener.
BoldBranch_ResetToOpen(st, s) ==
    LET open == st.i
        flushed == flush_plain(st, s)
        start == open + 2
        scan == FindBoldClose(s, start)
        after == IF scan.found_close
                 THEN AppendSliceIfNonEmpty([flushed EXCEPT !.i = scan.i + 2],
                                            s, start, scan.i, Bold)
                 ELSE [flushed EXCEPT !.i = open,
                                      !.job = Append(@, Section(<<"*", "*">>, Plain))]
    IN  [after EXCEPT !.plain_start = after.i]

BoldBranch(st, s) ==
    LET open == st.i
        flushed == flush_plain(st, s)
        start == open + 2
        scan == FindBoldClose(s, start)
        after == IF scan.found_close
                 THEN AppendSliceIfNonEmpty([flushed EXCEPT !.i = scan.i + 2],
                                            s, start, scan.i, Bold)
                 ELSE [flushed EXCEPT !.i = open + 2,
                                      !.job = Append(@, Section(<<"*", "*">>, Plain))]
    IN  [after EXCEPT !.plain_start = after.i]

\* Mutant: the closing marker is not skipped.
CodeBranch_KeepCloser(st, s) ==
    LET flushed == flush_plain(st, s)
        start == st.i + 1
        close == ScanTo(s, start, Backtick)
        after == AppendSliceIfNonEmpty([flushed EXCEPT !.i = close],
                                       s, start, close, Code)
    IN  [after EXCEPT !.plain_start = after.i]

CodeBranch(st, s) ==
    LET flushed == flush_plain(st, s)
        start == st.i + 1
        close == ScanTo(s, start, Backtick)
        next_i == IF close < Len(s) THEN close + 1 ELSE close
        after == AppendSliceIfNonEmpty([flushed EXCEPT !.i = next_i],
                                       s, start, close, Code)
    IN  [after EXCEPT !.plain_start = after.i]

ItalicBranch(st, s) ==
    LET flushed == flush_plain(st, s)
        start == st.i + 1
        close == ScanTo(s, start, "*")
        next_i == IF close < Len(s) THEN close + 1 ELSE close
        after == AppendSliceIfNonEmpty([flushed EXCEPT !.i = next_i],
                                       s, start, close, Italic)
    IN  [after EXCEPT !.plain_start = after.i]

PlainBranch(st, s) == [st EXCEPT !.i = @ + 1]

\* One iteration of `while i < len`.
InlineIteration(st, s) ==
    IF IsBoldAt(s, st.i) THEN BoldBranch(st, s)
    ELSE IF IsCodeAt(s, st.i) THEN CodeBranch(st, s)
    ELSE IF IsItalicAt(s, st.i) THEN ItalicBranch(st, s)
    ELSE PlainBranch(st, s)

\* Mutant: the final flush appends the whole line.
FinalFlush_WholeLine(st, s) ==
    IF st.plain_start < Len(s)
    THEN AppendSlice(st, s, 0, Len(s), Plain)
    ELSE st

\* Mutant: the trailing plain text is never flushed.
FinalFlush_Dropped(st, s) == st

\* if plain_start < text.len() { job.append(&text[plain_start..], 0.0, plain_fmt) }
FinalFlush(st, s) ==
    IF st.plain_start < Len(s)
    THEN AppendSlice(st, s, st.plain_start, Len(s), Plain)
    ELSE st

InlineStart ==
    [i |-> 0, plain_start |-> 0, job |-> <<>>, cuts |-> {}, panic |-> FALSE]

RECURSIVE InlineLoop(_, _)
InlineLoop(st, s) ==
    IF st.panic THEN st
    ELSE IF st.i < Len(s) THEN InlineLoop(InlineIteration(st, s), s)
    ELSE FinalFlush(st, s)

\* build_inline_job as a function of its text: the sections of the job, and
\* whether building it panicked.
build_inline_job(s) == InlineLoop(InlineStart, s)

\* The label of the fast path: the whole text in the default format.
FastPathRuns(s) == <<Section(s, Plain)>>

HasInlineMarkup(s) ==
    contains(s, <<"*", "*">>) \/ contains(s, <<"*">>) \/ contains(s, <<Backtick>>)

\* render_inline_text as a function of its text.
render_inline_text(s) ==
    IF ~HasInlineMarkup(s)
    THEN [job |-> FastPathRuns(s), panic |-> FALSE]
    ELSE [job |-> build_inline_job(s).job, panic |-> build_inline_job(s).panic]

\* job.text: the concatenation of the sections' texts
JobText(sections) == Concat([k \in 1..Len(sections) |-> sections[k].text])

\* ------------------------------------------- build_inline_job, step by step

InlineChars == {"*", Backtick, "a", "e'"}

\* A line of well-formed spans: each segment is a stretch of plain text or a
\* closed bold, italic or code span; contents are non-empty and marker-free,
\* and no two plain stretches are adjacent.
SpanContents == {<<"a">>, <<" ", "C3", "A9">>}

SpanKinds == {Plain, Bold, Italic, Code}

SpanMarker(kind) ==
    CASE kind = Bold -> <<"*", "*">>
      [] kind = Italic -> <<"*">>
      [] kind = Code -> <<Backtick>>
      [] OTHER -> <<>>

SpanLines ==
    {sp \in SeqsUpTo([text : SpanContents, style : SpanKinds], MaxSpans) :
        \A k \in 1..(Len(sp) - 1) : ~(sp[k].style = Plain /\ sp[k + 1].style = Plain)}

RenderSpans(sp) ==
    Concat([k \in 1..Len(sp) |->
              SpanMarker(sp[k].style) \o sp[k].text \o SpanMarker(sp[k].style)])

RawInlineTexts == {Utf8(cs) : cs \in SeqsUpTo(InlineChars, MaxInlineLen)}

\* The input is any string over the characters, or a line put together from
\* well-formed spans.
UnknownSpans == [known |-> FALSE, line |-> <<>>]

KnownSpans(sp) == [known |-> TRUE, line |-> sp]

ObjectsIdle == world_objects = <<>> /\ selected_obj_idx = None

StructureIdle == struct_roots = <<>> /\ selected_node_path = <<>>

EditorsIdle ==
    /\ left_file = None /\ right_file = None
    /\ left_undo_stack = <<>> /\ right_undo_stack = <<>>
    /\ last_focused_left = TRUE
    /\ left_before_change = None /\ right_before_change = None
    /\ frames = 0 /\ event = "none"

MarkdownIdle ==
    /\ i = 0 /\ plain_start = 0 /\ job = <<>> /\ cuts = {}
    /\ panicked = FALSE
    /\ ret = <<>> /\ arg_n = 0
    /\ line_no = 0
    /\ entries = <<>> /\ outline = <<>>
    /\ in_code_block = FALSE /\ code_lines = <<>> /\ blocks = <<>>

Idle == MarkdownIdle /\ ObjectsIdle /\ StructureIdle /\ EditorsIdle

InitInline ==
    /\ \/ text \in RawInlineTexts /\ spans = UnknownSpans
       \/ \E sp \in SpanLines : text = RenderSpans(sp) /\ spans = KnownSpans(sp)
    /\ pc = "start"
    /\ Idle

InlineState ==
    [i |-> i, plain_start |-> plain_start, job |-> job, cuts |-> cuts,
     panic |-> panicked]

InlineSet(st) ==
    /\ i' = st.i
    /\ plain_start' = st.plain_start
    /\ job' = st.job
    /\ cuts' = st.cuts
    /\ panicked' = st.panic
    /\ pc' = IF st.panic THEN "panic" ELSE "scan"
    /\ UNCHANGED <<panelVars, text, spans, helperVars, line_no, outlineVars, renderVars>>

\* render_inline_text, fast path: one label over the whole text.
InlineFastPath ==
    /\ pc = "start"
    /\ ~HasInlineMarkup(text)
    /\ job' = FastPathRuns(text)
    /\ pc' = "fast_done"
    /\ UNCHANGED <<panelVars, text, spans, i, plain_start, cuts, panicked, helperVars,
                   line_no, outlineVars, renderVars>>

\* build_inline_job is entered (from render_inline_text, or directly).
InlineEnter ==
    /\ pc = "start"
    /\ InlineSet(InlineStart)

InlineBold ==
    /\ pc = "scan" /\ i < Len(text)
    /\ IsBoldAt(text, i)
    /\ InlineSet(BoldBranch(InlineState, text))

InlineCode ==
    /\ pc = "scan" /\ i < Len(text)
    /\ ~IsBoldAt(text, i) /\ IsCodeAt(text, i)
    /\ InlineSet(CodeBranch(InlineState, text))

InlineItalic ==
    /\ pc = "scan" /\ i < Len(text)
    /\ ~IsBoldAt(text, i) /\ ~IsCodeAt(text, i) /\ IsItalicAt(text, i)
    /\ InlineSet(ItalicBranch(InlineState, text))

InlinePlain ==
    /\ pc = "scan" /\ i < Len(text)
    /\ ~IsBoldAt(text, i) /\ ~IsCodeAt(text, i) /\ ~IsItalicAt(text, i)
    /\ InlineSet(PlainBranch(InlineState, text))

InlineFinish ==
    /\ pc = "scan" /\ ~(i < Len(text))
    /\ LET st == FinalFlush(InlineState, text)
       IN  /\ job' = st.job
           /\ cuts' = st.cuts
           /\ panicked' = st.panic
           /\ pc' = IF st.panic THEN "panic" ELSE "done"
    /\ UNCHANGED <<panelVars, text, spans, i, plain_start, helperVars, line_no, outlineVars,
                   renderVars>>

NextInline ==
    \/ InlineFastPath
    \/ InlineEnter
    \/ InlineBold
    \/ InlineCode
    \/ InlineItalic
    \/ InlinePlain
    \/ InlineFinish

SpecInline == InitInline /\ [][NextInline]_vars

\* ------------------------------------------------- inline tokenizer: claims

NoMarkers(s) == ~contains(s, <<"*">>) /\ ~contains(s, <<Backtick>>)

\* C8 as claimed: for every text with neither '*' nor the code marker, the
\* full scan ends with exactly one Plain run whose text is the input, the run
\* sequence of the fast path.
C8_PlainTextOneRun ==
    (pc = "done" /\ NoMarkers(text)) =>
        /\ Len(job) = 1
        /\ job[1].style = Plain
        /\ job[1].text = text
        /\ job = FastPathRuns(text)

\* C8 amended: the same for every non-empty marker-free text; for the empty
\* text the full scan ends with no run at all.
C8_PlainTextOneRunNonEmpty ==
    (pc = "done" /\ NoMarkers(text)) =>
        IF text = <<>>
        THEN job = <<>>
        ELSE /\ Len(job) = 1
             /\ job[1].style = Plain
             /\ job[1].text = text
             /\ job = FastPathRuns(text)

C8_Witness ==
    /\ pc = "done" /\ NoMarkers(text) /\ Len(text) >= 3
    /\ contains(text, TwoByteChar)
    /\ job = FastPathRuns(text)

\* C9: a line of closed, non-empty, non-nested spans is tokenized into exactly
\* its segments, in order: one Bold, Italic or Code run per span with the text
\* between its markers, one Plain run per stretch outside spans; so the job's
\* text is the line without its span markers.
C9_ClosedSpansTokenized ==
    (pc = "done" /\ spans.known) =>
        /\ job = spans.line
        /\ JobText(job) = Concat([k \in 1..Len(spans.line) |-> spans.line[k].text])

C9_Witness ==
    /\ pc = "done" /\ spans.known
    /\ Len(spans.line) = 3
    /\ {spans.line[k].style : k \in 1..3} = {Plain, Bold, Italic}
    /\ job = spans.line

\* A line whose only marker characters are one pair "**".
OnlyUnmatchedBold(s) ==
    \E k \in 1..(Len(s) - 1) :
        /\ s[k] = "*" /\ s[k + 1] = "*"
        /\ \A m \in 1..Len(s) : m \notin {k, k + 1} => s[m] \notin {"*", Backtick}

\* No "**" starts at byte offset k or later.
NoBoldCloseFrom(s, k) ==
    \A m \in k..(Len(s) - 2) : ~(s[m + 1] = "*" /\ s[m + 2] = "*")

\* C10: at "**" with no later "**", the iteration flushes the pending plain
\* text, appends the two characters "**" as a Plain run and leaves the cursor
\* right after the opener; and a line whose only markers are that opener is
\* reproduced verbatim by the job's text.
C10_UnmatchedBoldLiteral ==
    /\ [][(pc = "scan" /\ i < Len(text) /\ IsBoldAt(text, i)
              /\ NoBoldCloseFrom(text, i + 2)) =>
            /\ pc' = "scan"
            /\ i' = i + 2
            /\ plain_start' = i + 2
            /\ job' = (IF plain_start < i
                       THEN Append(job, Section(SubSeq(text, plain_start + 1, i), Plain))
                       ELSE job) \o <<Section(<<"*", "*">>, Plain)>>]_vars
    /\ []((pc = "done" /\ OnlyUnmatchedBold(text)) => JobText(job) = text)

C10_Witness ==
    /\ pc = "done" /\ OnlyUnmatchedBold(text)
    /\ Len(text) >= 5
    /\ text[1] # "*" /\ text[Len(text)] # "*"
    /\ JobText(job) = text

\* The single-byte ASCII markers of the tokenizer.
Markers == {"*", Backtick}

\* Byte offset k is 0, the length of s, the position of a marker byte, or the
\* position just after one.
AtMarkerBoundary(s, k) ==
    \/ k = 0
    \/ k = Len(s)
    \/ 0 < k /\ k < Len(s) /\ (s[k + 1] \in Markers \/ s[k] \in Markers)

\* s without its marker bytes.
WithoutMarkers(s) == SelectSeq(s, LAMBDA b : b \notin Markers)

\* C11: build_inline_job never cuts the text inside a multi-byte sequence:
\* every byte offset it slices the text at is 0, the text length, or the
\* position of (or just after) a marker byte, hence a character boundary, and
\* no slice fails; and the non-marker bytes of the text are the non-marker
\* bytes of the job's text, unchanged and in their order.
C11_NeverSplitsMultiByte ==
    /\ ~panicked /\ pc # "panic"
    /\ \A k \in cuts : AtMarkerBoundary(text, k) /\ is_char_boundary(text, k)
    /\ pc = "done" => WithoutMarkers(JobText(job)) = WithoutMarkers(text)

C11_Witness ==
    /\ pc = "done"
    /\ starts_with(text, TwoByteChar \o <<"*">> \o TwoByteChar)
    /\ Len(text) >= 7
    /\ {2, 5} \subseteq cuts
    /\ Len(job) >= 2
    /\ WithoutMarkers(JobText(job)) = WithoutMarkers(text)

\* The scan is at a single marker c (not the start of "**") that has no
\* closer: c does not occur later in the text.
AtUnclosed(c) ==
    /\ pc = "scan" /\ i < Len(text)
    /\ ~IsBoldAt(text, i)
    /\ text[i + 1] = c
    /\ \A m \in (i + 2)..Len(text) : text[m] # c

\* The job once the pending plain stretch is flushed.
JobFlushed ==
    IF plain_start < i
    THEN Append(job, Section(SubSeq(text, plain_start + 1, i), Plain))
    ELSE job

StyleOfMarker(c) == IF c = Backtick THEN Code ELSE Italic

\* C22 as claimed: an unclosed single marker consumes the whole remainder of
\* the line as one Code or Italic run, the opener dropped.
C22_UnclosedConsumesRest ==
    [][\A c \in Markers : AtUnclosed(c) =>
          /\ i' = Len(text) /\ plain_start' = Len(text)
          /\ job' = Append(JobFlushed,
                           Section(SubSeq(text, i + 2, Len(text)), StyleOfMarker(c)))]_vars

\* C22 amended: an unclosed single marker consumes the whole remainder of the
\* line: a non-empty remainder becomes one Code or Italic run, markers in it
\* included verbatim, an empty remainder yields no run; the opener is dropped
\* and the scan is over, so nothing after the opener is interpreted.
C22_UnclosedConsumesNonEmptyRest ==
    /\ [][\A c \in Markers : AtUnclosed(c) =>
            LET rest == SubSeq(text, i + 2, Len(text))
            IN  /\ i' = Len(text) /\ plain_start' = Len(text)
                /\ pc' = "scan"
                /\ job' = IF rest = <<>> THEN JobFlushed
                          ELSE Append(JobFlushed, Section(rest, StyleOfMarker(c)))]_vars
    /\ [][(pc = "scan" /\ i = Len(text) /\ plain_start = Len(text)) =>
            (pc' = "done" /\ job' = job)]_vars

C22_Witness ==
    /\ pc = "done"
    /\ text = <<"a", Backtick, "*", "a", "*">>
    /\ job = <<Section(<<"a">>, Plain), Section(<<"*", "a", "*">>, Code)>>

LiteralBold == Section(<<"*", "*">>, Plain)

\* C23 as claimed: the text of the runs holds no marker character but for
\* the literal "**" of an unmatched bold opener.
C23_NoMarkersInOutput ==
    \A k \in 1..Len(job) : NoMarkers(job[k].text) \/ job[k] = LiteralBold

\* C23 amended: a run never holds its own delimiter: a Plain run holds no
\* marker unless it is the literal "**" of an unmatched bold opener, a Code
\* run holds no code marker, an Italic run holds no '*', a Bold run holds no
\* "**"; markers of another kind between a span's delimiters stay in its
\* text.
C23_NoOwnMarkerInRun ==
    \A k \in 1..Len(job) :
        CASE job[k].style = Plain -> NoMarkers(job[k].text) \/ job[k] = LiteralBold
          [] job[k].style = Code -> ~contains(job[k].text, <<Backtick>>)
          [] job[k].style = Italic -> ~contains(job[k].text, <<"*">>)
          [] job[k].style = Bold -> ~contains(job[k].text, <<"*", "*">>)
          [] OTHER -> FALSE

C23_Witness ==
    /\ pc = "done"
    /\ text = <<"*", "*", Backtick, "*", "a">>
    /\ job = <<LiteralBold, Section(<<"*", "a">>, Code)>>

\* C24 as claimed: no two adjacent runs of the job have the same style.
C24_AdjacentStylesDiffer ==
    \A k \in 1..(Len(job) - 1) : job[k].style # job[k + 1].style

\* r is the job b with at most one run appended, which satisfies Last.
ExtendsByAtMostOne(r, b, Last(_)) ==
    \/ r = b
    \/ /\ Len(r) = Len(b) + 1
       /\ SubSeq(r, 1, Len(b)) = b
       /\ Last(r[Len(r)])

\* C24 amended: runs are not merged, each run is one parsed span, one literal
\* "**" or one plain stretch. A step at a marker appends the pending plain
\* stretch, if any, and then at most one run for the span or the literal "**";
\* a step elsewhere appends nothing; the end appends the pending plain
\* stretch, if any. A plain stretch is maximal: it starts at the start of the
\* line or right after a marker and holds no marker.
C24_OneRunPerSpan ==
    /\ [][(pc = "scan" /\ i < Len(text) /\ text[i + 1] \in Markers) =>
            ExtendsByAtMostOne(job', JobFlushed,
                LAMBDA run : run.style \in {Bold, Italic, Code} \/ run = LiteralBold)]_vars
    /\ [][(pc = "scan" /\ i < Len(text) /\ text[i + 1] \notin Markers) =>
            job' = job]_vars
    /\ [][(pc = "scan" /\ i >= Len(text)) =>
            job' = (IF plain_start < Len(text)
                    THEN Append(job, Section(SubSeq(text, plain_start + 1, Len(text)),
                                             Plain))
                    ELSE job)]_vars
    /\ [](pc = "scan" =>
            /\ plain_start = 0 \/ plain_start = Len(text)
                 \/ text[plain_start] \in Markers
            /\ \A m \in (plain_start + 1)..i : m <= Len(text) => text[m] \notin Markers)

C24_Witness ==
    /\ pc = "done"
    /\ text = <<"*", "a", "*", "*", "a", "*">>
    /\ job = <<Section(<<"a">>, Italic), Section(<<"a">>, Italic)>>

\* The span opened by the marker at the cursor has nothing between its
\* markers, or is unclosed with nothing after its opener.
AtEmptySpan ==
    /\ pc = "scan" /\ i < Len(text)
    /\ \/ IsBoldAt(text, i) /\ IsBoldAt(text, i + 2)
       \/ ~IsBoldAt(text, i) /\ text[i + 1] \in Markers
            /\ (i + 1 = Len(text) \/ text[i + 2] = text[i + 1])

\* C25: every run build_inline_job appends has non-empty text: a span with
\* nothing between its markers, or an unclosed single marker at the end of the
\* line, appends no run, and a plain stretch is flushed only when non-empty.
C25_RunsNonEmpty ==
    /\ []((pc \in {"scan", "done"}) => \A k \in 1..Len(job) : job[k].text # <<>>)
    /\ [][AtEmptySpan => job' = JobFlushed]_vars
    /\ [][(pc = "scan" /\ plain_start >= i /\ plain_start >= Len(text)) =>
            job' = job]_vars

C25_Witness ==
    /\ pc = "done"
    /\ text = <<"*", "*", "*", "*", Backtick, Backtick>>
       \/ text = <<"a", Backtick, Backtick, "*">>
    /\ Len(job) <= 1
    /\ JobText(job) = WithoutMarkers(text)

\* C26: the scan loop terminates: the cursor never exceeds the text length,
\* every iteration leaves it strictly larger than it found it (the unmatched
\* bold branch leaves it at open + 2), and with the cursor at the end the
\* only step is the return.
C26_CursorAdvances ==
    /\ [](0 <= i /\ i <= Len(text))
    /\ [][(pc = "scan" /\ i < Len(text)) =>
            (pc' = "scan" /\ i < i' /\ i' <= Len(text))]_vars
    /\ [][(pc = "scan" /\ i < Len(text) /\ IsBoldAt(text, i)
             /\ NoBoldCloseFrom(text, i + 2)) => i' = i + 2]_vars
    /\ [][(pc = "scan" /\ i >= Len(text)) => pc' = "done"]_vars

C26_Witness ==
    /\ pc = "done"
    /\ i = Len(text)
    /\ text = <<"a", "*", "*", "a", Backtick, "a">>
    /\ Len(job) = 4

\* --------------------------------------------------- the helpers, called

HeadingLevels == 1..6

HeadingChars == {"#", " ", "a"}

RuleLineChars == {"-", "*", "_", " ", "a"}

OrderedChars == {"1", ".", " ", "a"}

InitHelper(chars, maxLen) ==
    /\ text \in SeqsUpTo(chars, maxLen)
    /\ spans = UnknownSpans
    /\ pc = "start"
    /\ Idle

HelperReturn(name, n, value, panic) ==
    /\ pc = "start"
    /\ pc' = name
    /\ arg_n' = n
    /\ ret' = value
    /\ panicked' = panic
    /\ UNCHANGED <<panelVars, text, spans, inlineVars, line_no, outlineVars, renderVars>>

\* strip_heading(text, n), for each level render_markdown tries
StripHeadingCall ==
    \E n \in HeadingLevels :
        HelperReturn("strip_heading", n, strip_heading(text, n),
                     strip_heading(text, n).panic)

InitHeading == InitHelper(HeadingChars, MaxHeadingLen)

NextHeading == StripHeadingCall

SpecHeading == InitHeading /\ [][NextHeading]_vars

\* is_horizontal_rule(text)
HorizontalRuleCall ==
    HelperReturn("is_horizontal_rule", 0, is_horizontal_rule(text), FALSE)

InitRule == InitHelper(RuleLineChars, MaxRuleLen)

NextRule == HorizontalRuleCall

SpecRule == InitRule /\ [][NextRule]_vars

\* parse_ordered_item(text)
OrderedItemCall ==
    HelperReturn("parse_ordered_item", 0, parse_ordered_item(text),
                 parse_ordered_item(text).panic)

InitOrdered == InitHelper(OrderedChars, MaxOrderedLen)

NextOrdered == OrderedItemCall

SpecOrdered == InitOrdered /\ [][NextOrdered]_vars

\* ------------------------------------------------------- helpers: claims

\* The line starts with n '#' and then has a space or ends.
HashRunThenSpaceOrEnd(line, n) ==
    /\ Len(line) >= n
    /\ \A k \in 1..n : line[k] = "#"
    /\ Len(line) = n \/ line[n + 1] = " "

\* v is s without its trailing whitespace.
IsTrimmedEndOf(v, s) ==
    /\ Len(v) <= Len(s)
    /\ \A k \in 1..Len(v) : v[k] = s[k]
    /\ \A k \in (Len(v) + 1)..Len(s) : s[k] \in Whitespace
    /\ v = <<>> \/ v[Len(v)] \notin Whitespace

\* C4: strip_heading(line, n) is Some exactly when the line starts with n '#'
\* followed by a space or the end of the line; the value is the text after
\* that one space without trailing whitespace; otherwise None; so at most one
\* level in 1..6 matches a line.
C4_StripHeadingExact ==
    pc = "strip_heading" =>
        /\ ~panicked
        /\ ret.some <=> HashRunThenSpaceOrEnd(text, arg_n)
        /\ ret.some =>
            /\ IsTrimmedEndOf(ret.val, SubSeq(text, arg_n + 2, Len(text)))
            /\ \A m \in HeadingLevels \ {arg_n} : ~strip_heading(text, m).some

C4_Witness ==
    /\ pc = "strip_heading" /\ arg_n = 3
    /\ ret.some /\ ret.val = <<" ", "a">>
    /\ Len(text) = 7

\* The line, cut at its first and last non-whitespace character, is at least
\* 3 long, is made of spaces and one character c of - * _, and has c 3 times.
IsRuleLine(line) ==
    LET ink == {k \in 1..Len(line) : line[k] \notin Whitespace}
    IN  /\ ink # {}
        /\ LET lo == CHOOSE k \in ink : \A m \in ink : k <= m
               hi == CHOOSE k \in ink : \A m \in ink : k >= m
           IN  /\ hi - lo + 1 >= 3
               /\ \E c \in {"-", "*", "_"} :
                    /\ \A k \in lo..hi : line[k] \in {c, " "}
                    /\ Cardinality({k \in lo..hi : line[k] = c}) >= 3

\* C6: is_horizontal_rule(line) is true exactly for the lines whose trimmed
\* text has length >= 3, consists of spaces and a single character c among
\* - * _, and holds c at least 3 times.
C6_HorizontalRuleExact ==
    pc = "is_horizontal_rule" => (ret <=> IsRuleLine(text))

C6_Witness ==
    /\ pc = "is_horizontal_rule"
    /\ ret = TRUE
    /\ text = <<"*", " ", "*", " ", "*">>

\* C7: parse_ordered_item(line) is Some exactly when the text before the
\* first ". " is a non-empty string of ASCII digits; it returns that string
\* and everything after that first ". "; otherwise None.
C7_OrderedItemExact ==
    pc = "parse_ordered_item" =>
        LET occ == {k \in 1..(Len(text) - 1) : text[k] = "." /\ text[k + 1] = " "}
        IN  /\ ~panicked
            /\ IF occ = {} THEN ~ret.some
               ELSE LET k == CHOOSE x \in occ : \A y \in occ : x <= y
                        left == SubSeq(text, 1, k - 1)
                    IN  IF left # <<>> /\ \A m \in 1..Len(left) : left[m] \in
                               {"0", "1", "2", "3", "4", "5", "6", "7", "8", "9"}
                        THEN /\ ret.some
                             /\ ret.val = <<left, SubSeq(text, k + 2, Len(text))>>
                        ELSE ~ret.some

C7_Witness ==
    /\ pc = "parse_ordered_item"
    /\ ret.some
    /\ ret.val = <<<<"1", "1">>, <<".", " ">>>>

\* ------------------------------------------------------------ str::lines

\* str::lines for a text without carriage returns: the text is cut at each
\* "\n", and a final empty piece is not a line.
RECURSIVE Lines(_)
Lines(s) ==
    IF s = <<>> THEN <<>>
    ELSE LET nl == find(s, <<"\n">>)
         IN  IF nl = -1 THEN <<s>>
             ELSE <<SubSeq(s, 1, nl)>> \o Lines(SubSeq(s, nl + 2, Len(s)))

\* [&str]::join("\n")
RECURSIVE JoinLines(_)
JoinLines(ls) ==
    IF ls = <<>> THEN <<>>
    ELSE IF Len(ls) = 1 THEN ls[1]
    ELSE ls[1] \o <<"\n">> \o JoinLines(Tail(ls))

\* str::strip_prefix
strip_prefix(s, p) ==
    IF starts_with(s, p) THEN Some(SubSeq(s, Len(p) + 1, Len(s))) ELSE None

\* ----------------------------------------------------------- parse_outline

\* Mutant: a single '#' opens a heading whatever follows it.
OutlineLine_NoLevel1Check(line) ==
    LET hashes(n) == strip_prefix(line, Repeat("#", n))
    IN  IF hashes(6).some THEN <<<<6, trim(hashes(6).val)>>>>
        ELSE IF hashes(5).some THEN <<<<5, trim(hashes(5).val)>>>>
        ELSE IF hashes(4).some THEN <<<<4, trim(hashes(4).val)>>>>
        ELSE IF hashes(3).some THEN <<<<3, trim(hashes(3).val)>>>>
        ELSE IF hashes(2).some THEN <<<<2, trim(hashes(2).val)>>>>
        ELSE IF hashes(1).some THEN <<<<1, trim(hashes(1).val)>>>>
        ELSE <<>>

\* Mutant: a run of seven '#' or more opens no heading.
OutlineLine_SixAtMost(line) ==
    LET hashes(n) == strip_prefix(line, Repeat("#", n))
    IN  IF hashes(7).some THEN <<>>
        ELSE IF hashes(6).some THEN <<<<6, trim(hashes(6).val)>>>>
        ELSE IF hashes(5).some THEN <<<<5, trim(hashes(5).val)>>>>
        ELSE IF hashes(4).some THEN <<<<4, trim(hashes(4).val)>>>>
        ELSE IF hashes(3).some THEN <<<<3, trim(hashes(3).val)>>>>
        ELSE IF hashes(2).some THEN <<<<2, trim(hashes(2).val)>>>>
        ELSE IF hashes(1).some
             THEN IF starts_with(hashes(1).val, <<" ">>) \/ hashes(1).val = <<>>
                  THEN <<<<1, trim(hashes(1).val)>>>>
                  ELSE <<>>
        ELSE <<>>

\* The body of `for line in markdown.lines()`: the entries the line pushes
\* (none or one), each a pair (level, title).
OutlineLine(line) ==
    LET hashes(n) == strip_prefix(line, Repeat("#", n))
    IN  IF hashes(6).some THEN <<<<6, trim(hashes(6).val)>>>>
        ELSE IF hashes(5).some THEN <<<<5, trim(hashes(5).val)>>>>
        ELSE IF hashes(4).some THEN <<<<4, trim(hashes(4).val)>>>>
        ELSE IF hashes(3).some THEN <<<<3, trim(hashes(3).val)>>>>
        ELSE IF hashes(2).some THEN <<<<2, trim(hashes(2).val)>>>>
        ELSE IF hashes(1).some
             THEN IF starts_with(hashes(1).val, <<" ">>) \/ hashes(1).val = <<>>
                  THEN <<<<1, trim(hashes(1).val)>>>>
                  ELSE <<>>
        ELSE <<>>

OutlineEntry(level, title, children) ==
    [level |-> level, title |-> title, children |-> children]

\* while j < flat.len() && flat[j].0 > depth { j += 1 }
RECURSIVE ChildrenEnd(_, _, _)
ChildrenEnd(flat, depth, j) ==
    IF j < Len(flat) /\ flat[j + 1][1] > depth
    THEN ChildrenEnd(flat, depth, j + 1)
    ELSE j

\* &flat[a..b] succeeds
RangeOK(flat, a, b) == 0 <= a /\ a <= b /\ b <= Len(flat)

\* nest_entries returns [result, panic]; NestLoop is its while loop from
\* index idx on, with acc the result so far.
RECURSIVE nest_entries(_, _)
RECURSIVE NestLoop(_, _, _, _)
\* Mutant: the children are nested two levels below their parent.
NestLoop_ChildrenTwoDeeper(flat, depth, idx, acc) ==
    IF acc.panic \/ ~(idx < Len(flat)) THEN acc
    ELSE LET lvl == flat[idx + 1][1]
             title == flat[idx + 1][2]
         IN  IF lvl = depth
             THEN LET j == ChildrenEnd(flat, depth, idx + 1)
                  IN  IF ~RangeOK(flat, idx + 1, j)
                      THEN [acc EXCEPT !.panic = TRUE]
                      ELSE LET children ==
                                   nest_entries(SubSeq(flat, idx + 2, j), depth + 2)
                           IN  NestLoop(flat, depth, j,
                                   [result |-> Append(acc.result,
                                        OutlineEntry(depth, title, children.result)),
                                    panic |-> children.panic])
             ELSE IF lvl > depth
             THEN NestLoop(flat, depth, idx + 1, acc)
             ELSE acc

\* Mutant: a deeper entry with no opener before it becomes a node.
NestLoop_PromoteOrphans(flat, depth, idx, acc) ==
    IF acc.panic \/ ~(idx < Len(flat)) THEN acc
    ELSE LET lvl == flat[idx + 1][1]
             title == flat[idx + 1][2]
         IN  IF lvl = depth
             THEN LET j == ChildrenEnd(flat, depth, idx + 1)
                  IN  IF ~RangeOK(flat, idx + 1, j)
                      THEN [acc EXCEPT !.panic = TRUE]
                      ELSE LET children ==
                                   nest_entries(SubSeq(flat, idx + 2, j), depth + 1)
                           IN  NestLoop(flat, depth, j,
                                   [result |-> Append(acc.result,
                                        OutlineEntry(depth, title, children.result)),
                                    panic |-> children.panic])
             ELSE IF lvl > depth
             THEN NestLoop(flat, depth, idx + 1,
                      [acc EXCEPT !.result = Append(@, OutlineEntry(lvl, title, <<>>))])
             ELSE acc

NestLoop(flat, depth, idx, acc) ==
    IF acc.panic \/ ~(idx < Len(flat)) THEN acc
    ELSE LET lvl == flat[idx + 1][1]
             title == flat[idx + 1][2]
         IN  IF lvl = depth
             THEN LET j == ChildrenEnd(flat, depth, idx + 1)
                  IN  IF ~RangeOK(flat, idx + 1, j)
                      THEN [acc EXCEPT !.panic = TRUE]
                      ELSE LET children ==
                                   nest_entries(SubSeq(flat, idx + 2, j), depth + 1)
                           IN  NestLoop(flat, depth, j,
                                   [result |-> Append(acc.result,
                                        OutlineEntry(depth, title, children.result)),
                                    panic |-> children.panic])
             ELSE IF lvl > depth
             THEN NestLoop(flat, depth, idx + 1, acc)
             ELSE acc

nest_entries(flat, depth) ==
    NestLoop(flat, depth, 0, [result |-> <<>>, panic |-> FALSE])

\* --------------------------------------------------------- render_markdown

\* RichText::new(rest).strong(): the format of a heading's label
Strong == "Strong"

Bullet == "bullet"

Block(kind, level, marker, t, runs) ==
    [kind |-> kind, level |-> level, marker |-> marker, text |-> t, runs |-> runs]

\* Option::or_else
OrElse(a, b) == IF a.some THEN a ELSE b

\* The chain strip_heading(line, 1) .. strip_heading(line, 6): the first level
\* that matches, from level n on.
RECURSIVE FirstHeading(_, _)
FirstHeading(line, n) ==
    IF n > 6 THEN [some |-> FALSE, level |-> 0, val |-> <<>>, panic |-> FALSE]
    ELSE LET h == strip_heading(line, n)
         IN  IF h.panic THEN [some |-> FALSE, level |-> 0, val |-> <<>>, panic |-> TRUE]
             ELSE IF h.some THEN [some |-> TRUE, level |-> n, val |-> h.val, panic |-> FALSE]
             ELSE FirstHeading(line, n + 1)

\* Mutant: the text is shown as one label, markers included.
InlineBlock_Untokenized(kind, marker, rest) ==
    [block |-> Block(kind, 0, marker, rest, FastPathRuns(rest)), panic |-> FALSE]

\* A block whose text goes through render_inline_text.
InlineBlock(kind, marker, rest) ==
    [block |-> Block(kind, 0, marker, rest, render_inline_text(rest).job),
     panic |-> render_inline_text(rest).panic]

\* Mutant: list items are tried before the horizontal rule.
RenderLine_ListBeforeRule(line) ==
    LET heading == FirstHeading(line, 1)
        quote == OrElse(strip_prefix(line, <<">", " ">>), strip_prefix(line, <<">">>))
        item == OrElse(strip_prefix(line, <<"-", " ">>),
                       OrElse(strip_prefix(line, <<"*", " ">>),
                              strip_prefix(line, <<"+", " ">>)))
        ordered == parse_ordered_item(line)
    IN  IF heading.panic THEN [block |-> Block("None", 0, <<>>, <<>>, <<>>), panic |-> TRUE]
        ELSE IF heading.some
        THEN [block |-> Block("Heading", heading.level, <<>>, heading.val,
                              <<Section(heading.val, Strong)>>),
              panic |-> FALSE]
        ELSE IF item.some THEN InlineBlock("UnorderedItem", <<Bullet>>, item.val)
        ELSE IF is_horizontal_rule(line)
        THEN [block |-> Block("HorizontalRule", 0, <<>>, <<>>, <<>>), panic |-> FALSE]
        ELSE IF quote.some THEN InlineBlock("BlockQuote", <<>>, quote.val)
        ELSE IF ordered.panic
        THEN [block |-> Block("None", 0, <<>>, <<>>, <<>>), panic |-> TRUE]
        ELSE IF ordered.some
        THEN InlineBlock("OrderedItem", ordered.val[1] \o <<".">>, ordered.val[2])
        ELSE InlineBlock("Paragraph", <<>>, line)

\* The classification of a non-blank line outside a fence: the block it
\* emits, and whether emitting it panicked.
RenderLine(line) ==
    LET heading == FirstHeading(line, 1)
        quote == OrElse(strip_prefix(line, <<">", " ">>), strip_prefix(line, <<">">>))
        item == OrElse(strip_prefix(line, <<"-", " ">>),
                       OrElse(strip_prefix(line, <<"*", " ">>),
                              strip_prefix(line, <<"+", " ">>)))
        ordered == parse_ordered_item(line)
    IN  IF heading.panic THEN [block |-> Block("None", 0, <<>>, <<>>, <<>>), panic |-> TRUE]
        ELSE IF heading.some
        THEN [block |-> Block("Heading", heading.level, <<>>, heading.val,
                              <<Section(heading.val, Strong)>>),
              panic |-> FALSE]
        ELSE IF is_horizontal_rule(line)
        THEN [block |-> Block("HorizontalRule", 0, <<>>, <<>>, <<>>), panic |-> FALSE]
        ELSE IF quote.some THEN InlineBlock("BlockQuote", <<>>, quote.val)
        ELSE IF item.some THEN InlineBlock("UnorderedItem", <<Bullet>>, item.val)
        ELSE IF ordered.panic
        THEN [block |-> Block("None", 0, <<>>, <<>>, <<>>), panic |-> TRUE]
        ELSE IF ordered.some
        THEN InlineBlock("OrderedItem", ordered.val[1] \o <<".">>, ordered.val[2])
        ELSE InlineBlock("Paragraph", <<>>, line)

IsFenceLine(line) == starts_with(trim_start(line), <<Backtick, Backtick, Backtick>>)

IsBlankLine(line) == trim(line) = <<>>

\* ------------------------------------ parse_outline and render_markdown, run

Fence == <<Backtick, Backtick, Backtick>>

DocChars == {"#", " ", "a", "\n"}

\* Lines of headings of levels 1, 2, 3 and 6, a "##" run with no space after
\* it, and a line of text.
OutlineShapes ==
    {<<"a">>,
     <<"#", " ", "a">>,
     <<"#", "#">>,
     <<"#", "#", "#", " ", "b">>,
     <<"#", "#", "a", " ">>,
     Repeat("#", 7) \o <<" ", "a">>}

\* Fence lines (bare, and indented with an info string), and lines that would
\* be a paragraph, a heading and a spacer outside a fence.
FenceShapes ==
    {Fence,
     <<" ">> \o Fence \o <<"a">>,
     <<"a">>,
     <<"#", " ", "a">>,
     <<>>}

\* One line or more for each classification of render_markdown.
BlockShapes ==
    {<<" ">>,
     <<"#", "#", " ", "*", "a", "*">>,
     <<"#", "a">>,
     <<"-", "-", "-">>,
     <<"-", " ", "-", " ", "-">>,
     <<"*", " ", "*", " ", "*">>,
     <<"-", "-">>,
     <<">", " ", "a">>,
     <<">">>,
     <<"-", " ", "*", "a", "*">>,
     <<"*", " ", "a">>,
     <<"+", " ">>,
     <<"1", ".", " ", "a">>,
     <<"a", ".", " ", "a">>,
     <<"a", "*", "*", "C3", "A9">>}

DocsOf(shapes, maxLines) == {JoinLines(ls) : ls \in SeqsUpTo(shapes, maxLines)}

MarkdownTexts ==
    SeqsUpTo(DocChars, MaxDocLen)
        \cup DocsOf(OutlineShapes, MaxOutlineLines)
        \cup DocsOf(FenceShapes, MaxFenceLines)
        \cup DocsOf(BlockShapes, MaxBlockLines)

InitMarkdown ==
    /\ text \in MarkdownTexts
    /\ spans = UnknownSpans
    /\ pc \in {"parse_outline", "render_markdown"}
    /\ Idle

\* The line the loop is at.
CurrentLine == Lines(text)[line_no + 1]

\* The loop of function fn has a line left / has consumed every line.
HasLine(fn) == pc = fn /\ line_no < Len(Lines(text))

AtEnd(fn) == pc = fn /\ line_no = Len(Lines(text))

\* The four cases of the body of render_markdown's loop.
AtFenceLine == HasLine("render_markdown") /\ IsFenceLine(CurrentLine)

AtCodeLine ==
    HasLine("render_markdown") /\ ~IsFenceLine(CurrentLine) /\ in_code_block

\* Mutant: a blank line is a spacer inside a fence too.
AtBlankLine_InFence ==
    /\ HasLine("render_markdown") /\ ~IsFenceLine(CurrentLine)
    /\ IsBlankLine(CurrentLine)

AtBlankLine ==
    /\ HasLine("render_markdown") /\ ~IsFenceLine(CurrentLine) /\ ~in_code_block
    /\ IsBlankLine(CurrentLine)

AtBlockLine ==
    /\ HasLine("render_markdown") /\ ~IsFenceLine(CurrentLine) /\ ~in_code_block
    /\ ~IsBlankLine(CurrentLine)

\* parse_outline: one iteration of the loop over markdown.lines()
ParseOutlineLine ==
    /\ HasLine("parse_outline")
    /\ entries' = entries \o OutlineLine(CurrentLine)
    /\ line_no' = line_no + 1
    /\ UNCHANGED <<panelVars, text, spans, pc, inlineVars, panicked, helperVars, outline,
                   renderVars>>

\* parse_outline: nest_entries(&entries, 1), returned
ParseOutlineReturn ==
    /\ AtEnd("parse_outline")
    /\ LET nested == nest_entries(entries, 1)
       IN  /\ outline' = nested.result
           /\ panicked' = nested.panic
           /\ pc' = IF nested.panic THEN "panic" ELSE "outline_done"
    /\ UNCHANGED <<panelVars, text, spans, inlineVars, helperVars, line_no, entries,
                   renderVars>>

\* render_markdown: a fence line toggles in_code_block
RenderFenceLine ==
    /\ AtFenceLine
    /\ IF in_code_block
       THEN /\ blocks' = Append(blocks,
                            Block("CodeBlock", 0, <<>>, JoinLines(code_lines), <<>>))
            /\ code_lines' = <<>>
            /\ in_code_block' = FALSE
       ELSE /\ in_code_block' = TRUE
            /\ UNCHANGED <<blocks, code_lines>>
    /\ line_no' = line_no + 1
    /\ UNCHANGED <<panelVars, text, spans, pc, inlineVars, panicked, helperVars, outlineVars>>

\* render_markdown: a line inside a fence is buffered
RenderCodeLine ==
    /\ AtCodeLine
    /\ code_lines' = Append(code_lines, CurrentLine)
    /\ line_no' = line_no + 1
    /\ UNCHANGED <<panelVars, text, spans, pc, inlineVars, panicked, helperVars, outlineVars,
                   in_code_block, blocks>>

\* Mutant: a blank line outside a fence emits nothing.
RenderBlankLine_NoSpacer ==
    /\ AtBlankLine
    /\ line_no' = line_no + 1
    /\ UNCHANGED <<panelVars, text, spans, pc, inlineVars, panicked, helperVars, outlineVars,
                   renderVars>>

\* render_markdown: a blank line outside a fence
RenderBlankLine ==
    /\ AtBlankLine
    /\ blocks' = Append(blocks, Block("Spacer", 0, <<>>, <<>>, <<>>))
    /\ line_no' = line_no + 1
    /\ UNCHANGED <<panelVars, text, spans, pc, inlineVars, panicked, helperVars, outlineVars,
                   in_code_block, code_lines>>

\* render_markdown: any other line is classified and emits its block
RenderBlockLine ==
    /\ AtBlockLine
    /\ LET r == RenderLine(CurrentLine)
       IN  /\ blocks' = IF r.panic THEN blocks ELSE Append(blocks, r.block)
           /\ panicked' = r.panic
           /\ pc' = IF r.panic THEN "panic" ELSE pc
    /\ line_no' = line_no + 1
    /\ UNCHANGED <<panelVars, text, spans, inlineVars, helperVars, outlineVars,
                   in_code_block, code_lines>>

\* Mutant: an open fence is flushed as a final code block.
RenderReturn_FlushOpenFence ==
    /\ AtEnd("render_markdown")
    /\ pc' = "render_done"
    /\ blocks' = IF in_code_block
                 THEN Append(blocks,
                             Block("CodeBlock", 0, <<>>, JoinLines(code_lines), <<>>))
                 ELSE blocks
    /\ UNCHANGED <<panelVars, text, spans, inlineVars, panicked, helperVars, line_no,
                   outlineVars, in_code_block, code_lines>>

\* render_markdown: the loop is over
RenderReturn ==
    /\ AtEnd("render_markdown")
    /\ pc' = "render_done"
    /\ UNCHANGED <<panelVars, text, spans, inlineVars, panicked, helperVars, line_no,
                   outlineVars, renderVars>>

NextMarkdown ==
    \/ ParseOutlineLine
    \/ ParseOutlineReturn
    \/ RenderFenceLine
    \/ RenderCodeLine
    \/ RenderBlankLine
    \/ RenderBlockLine
    \/ RenderReturn

SpecMarkdown == InitMarkdown /\ [][NextMarkdown]_vars

\* ---------------------------------------------------------- render: claims

\* The length of the leading run of '#'.
RECURSIVE LeadingHashes(_)
LeadingHashes(line) ==
    IF line # <<>> /\ Head(line) = "#" THEN 1 + LeadingHashes(Tail(line)) ELSE 0

\* The lines of ls strictly between line number cur (1-based) and the last
\* fence line before it.
SinceLastFence(ls, cur) ==
    LET before == {m \in 1..(cur - 1) : IsFenceLine(ls[m])}
        open == IF before = {} THEN 0
                ELSE CHOOSE m \in before : \A q \in before : q <= m
    IN  SubSeq(ls, open + 1, cur - 1)

CodeBlockOf(t) == Block("CodeBlock", 0, <<>>, t, <<>>)

\* C12: a fence line (left-trimmed, it starts with three code markers,
\* whatever follows them) toggles in_code_block and emits nothing when it
\* opens; when it closes it emits exactly one CodeBlock whose text is the
\* lines strictly between the two fence lines, verbatim, joined by newline,
\* and leaves the buffer empty. A line inside the fence emits no block,
\* whatever it looks like.
C12_FenceTogglesAndFlushes ==
    /\ [][(pc = "render_markdown" /\ line_no < Len(Lines(text))
             /\ IsFenceLine(CurrentLine)) =>
            /\ in_code_block' = ~in_code_block
            /\ code_lines' = <<>>
            /\ blocks' = IF in_code_block
                         THEN Append(blocks, CodeBlockOf(JoinLines(
                                  SinceLastFence(Lines(text), line_no + 1))))
                         ELSE blocks]_vars
    /\ [][(pc = "render_markdown" /\ line_no < Len(Lines(text))
             /\ ~IsFenceLine(CurrentLine) /\ in_code_block) =>
            /\ blocks' = blocks
            /\ in_code_block'
            /\ code_lines' = Append(code_lines, CurrentLine)]_vars

C12_Witness ==
    /\ pc = "render_done"
    /\ Lines(text) = << <<" ">> \o Fence \o <<"a">>, <<"#", " ", "a">>, <<>>, Fence >>
    /\ blocks = <<CodeBlockOf(<<"#", " ", "a", "\n">>)>>
    /\ ~in_code_block /\ code_lines = <<>>

\* The line numbers (1-based) of the fence lines of ls.
FenceLinesOf(ls) == {m \in 1..Len(ls) : IsFenceLine(ls[m])}

CodeBlocksIn(bs) == {k \in 1..Len(bs) : bs[k].kind = "CodeBlock"}

\* C13: when the document ends inside a fence, that fence yields no
\* CodeBlock: from the unmatched opening fence on no step emits a block, the
\* end of the document included, so the code blocks are those of the closed
\* fences and the buffered lines are dropped with the buffer.
C13_OpenFenceDiscarded ==
    /\ [][(pc = "render_markdown" /\ in_code_block
             /\ \A m \in FenceLinesOf(Lines(text)) : m <= line_no) =>
            blocks' = blocks]_vars
    /\ []((pc = "render_done" /\ in_code_block) =>
            /\ Cardinality(FenceLinesOf(Lines(text))) % 2 = 1
            /\ Cardinality(CodeBlocksIn(blocks))
                 = (Cardinality(FenceLinesOf(Lines(text))) - 1) \div 2
            /\ code_lines = SinceLastFence(Lines(text), Len(Lines(text)) + 1))

C13_Witness ==
    /\ pc = "render_done" /\ in_code_block
    /\ Lines(text) = <<Fence, Fence, Fence, <<"#", " ", "a">> >>
    /\ blocks = <<CodeBlockOf(<<>>)>>
    /\ code_lines = << <<"#", " ", "a">> >>

\* Line m of ls is a fence line that closes a fence: an odd number of fence
\* lines precede it.
ClosesFence(ls, m) ==
    IsFenceLine(ls[m]) /\ Cardinality({q \in FenceLinesOf(ls) : q < m}) % 2 = 1

\* Line m of ls is not a fence line and lies outside every fence.
OutsideFence(ls, m) ==
    ~IsFenceLine(ls[m]) /\ Cardinality({q \in FenceLinesOf(ls) : q < m}) % 2 = 0

\* The numbers of the lines among the first n that emit a block, ascending.
EmittingLines(ls, n) ==
    SelectSeq([m \in 1..n |-> m],
              LAMBDA m : OutsideFence(ls, m) \/ ClosesFence(ls, m))

\* C14: after n lines, the blocks are one per line that is outside every
\* fence and is no fence line (a Spacer for a whitespace-only line, one other
\* block for any other line) and one CodeBlock per closed fence, in the order
\* of the lines.
C14_OneBlockPerLine ==
    (pc \in {"render_markdown", "render_done"}) =>
        LET ls == Lines(text)
            em == EmittingLines(ls, line_no)
        IN  /\ Len(blocks)
                 = Cardinality({m \in 1..line_no : OutsideFence(ls, m)})
                   + Cardinality({m \in 1..line_no : ClosesFence(ls, m)})
            /\ Len(blocks) = Len(em)
            /\ \A k \in 1..Len(em) :
                 IF ClosesFence(ls, em[k])
                 THEN blocks[k] = CodeBlockOf(JoinLines(SinceLastFence(ls, em[k])))
                 ELSE IF IsBlankLine(ls[em[k]])
                 THEN blocks[k].kind = "Spacer"
                 ELSE /\ blocks[k] = RenderLine(ls[em[k]]).block
                      /\ blocks[k].kind \notin {"Spacer", "CodeBlock", "None"}

C14_Witness ==
    /\ pc = "render_done"
    /\ Lines(text) = << <<>>, Fence, <<"a">>, Fence >> \/
       Lines(text) = << <<>>, Fence, Fence, <<"#", " ", "a">> >>
    /\ Len(blocks) >= 2
    /\ blocks[1].kind = "Spacer" /\ blocks[2].kind = "CodeBlock"

\* The rules of the classification, each stated on the line alone.
IsHeadingLine(line) == \E n \in 1..6 : HashRunThenSpaceOrEnd(line, n)

IsQuoteLine(line) == Len(line) >= 1 /\ line[1] = ">"

IsUnorderedLine(line) ==
    Len(line) >= 2 /\ line[1] \in {"-", "*", "+"} /\ line[2] = " "

IsOrderedLine(line) ==
    LET occ == {k \in 1..(Len(line) - 1) : line[k] = "." /\ line[k + 1] = " "}
    IN  /\ occ # {}
        /\ LET k == CHOOSE x \in occ : \A y \in occ : x <= y
           IN  k > 1 /\ \A m \in 1..(k - 1) : line[m] \in AsciiDigits

\* The first rule that matches, in the order of the claim.
FirstRule(line) ==
    IF IsHeadingLine(line) THEN "Heading"
    ELSE IF IsRuleLine(line) THEN "HorizontalRule"
    ELSE IF IsQuoteLine(line) THEN "BlockQuote"
    ELSE IF IsUnorderedLine(line) THEN "UnorderedItem"
    ELSE IF IsOrderedLine(line) THEN "OrderedItem"
    ELSE "Paragraph"

\* C15: a non-blank line outside a fence appends exactly one block, of the
\* first rule that matches in the order heading, horizontal rule, block quote,
\* unordered item, ordered item, paragraph; so a line that matches several
\* rules takes the earlier one, and a line that matches none is a paragraph.
C15_FirstRuleWins ==
    [][(pc = "render_markdown" /\ line_no < Len(Lines(text)) /\ ~in_code_block
          /\ ~IsFenceLine(CurrentLine) /\ ~IsBlankLine(CurrentLine)) =>
         /\ Len(blocks') = Len(blocks) + 1
         /\ SubSeq(blocks', 1, Len(blocks)) = blocks
         /\ blocks'[Len(blocks')].kind = FirstRule(CurrentLine)]_vars

C15_Witness ==
    /\ pc = "render_done"
    /\ Lines(text) = << <<"-", " ", "-", " ", "-">>, <<"*", " ", "*", " ", "*">> >>
    /\ IsUnorderedLine(Lines(text)[1]) /\ IsUnorderedLine(Lines(text)[2])
    /\ Len(blocks) = 2
    /\ blocks[1].kind = "HorizontalRule" /\ blocks[2].kind = "HorizontalRule"

\* The level parse_outline records for the line, 0 if it records none.
OutlineLevel(line) ==
    IF OutlineLine(line) = <<>> THEN 0 ELSE OutlineLine(line)[1][1]

\* The level of the Heading block b, 0 for any other block.
HeadingLevel(b) == IF b.kind = "Heading" THEN b.level ELSE 0

\* C16 as claimed: on every line outside a fence, render_markdown emits a
\* heading of level n exactly when parse_outline records the line as a
\* level-n entry.
C16_SameHeadingRule ==
    [][(pc = "render_markdown" /\ line_no < Len(Lines(text)) /\ ~in_code_block
          /\ ~IsFenceLine(CurrentLine)) =>
         /\ Len(blocks') = Len(blocks) + 1
         /\ HeadingLevel(blocks'[Len(blocks')]) = OutlineLevel(CurrentLine)]_vars

\* The kinds of block that carry text.
TextKinds == {"Heading", "BlockQuote", "UnorderedItem", "OrderedItem", "Paragraph"}

\* The text of the line that remains after its structural prefix.
RestOf(line) ==
    LET rule == FirstRule(line)
        dots == {k \in 1..(Len(line) - 1) : line[k] = "." /\ line[k + 1] = " "}
    IN  CASE rule = "Heading" ->
               trim_end(SubSeq(line, LeadingHashes(line) + 2, Len(line)))
          [] rule = "BlockQuote" ->
               IF Len(line) >= 2 /\ line[2] = " "
               THEN SubSeq(line, 3, Len(line))
               ELSE SubSeq(line, 2, Len(line))
          [] rule = "UnorderedItem" -> SubSeq(line, 3, Len(line))
          [] rule = "OrderedItem" ->
               SubSeq(line, (CHOOSE k \in dots : \A q \in dots : k <= q) + 2, Len(line))
          [] rule = "Paragraph" -> line
          [] OTHER -> <<>>

\* The runs r are the runs t but for the format of the unmarked text: the
\* same texts in the same order, and every bold, italic or code run of t is
\* one of r.
SameRunsButBase(r, t) ==
    /\ Len(r) = Len(t)
    /\ \A k \in 1..Len(t) :
         /\ r[k].text = t[k].text
         /\ t[k].style \in {Bold, Italic, Code} => r[k].style = t[k].style

\* The block emitted for line number em[k] is blocks[k].
BlocksWithLines(P(_, _)) ==
    (pc \in {"render_markdown", "render_done"}) =>
        LET ls == Lines(text)
            em == EmittingLines(ls, line_no)
        IN  /\ Len(blocks) = Len(em)
            /\ \A k \in 1..Len(em) : P(blocks[k], ls[em[k]])

RECURSIVE Preorder(_)
Preorder(nodes) ==
    IF nodes = <<>> THEN <<>>
    ELSE <<<<nodes[1].level, nodes[1].title>>>>
             \o Preorder(nodes[1].children) \o Preorder(Tail(nodes))

\* The index of the next entry after p whose level is at most that of p, or
\* one past the end.
RunEnd(flat, p) ==
    LET stops == {q \in (p + 1)..Len(flat) : flat[q][1] <= flat[p][1]}
    IN  IF stops = {} THEN Len(flat) + 1
        ELSE CHOOSE q \in stops : \A r \in stops : q <= r

\* The nodes are the entries of level depth of flat, in order, and the subtree
\* of each is the whole run of entries that follows it up to the next entry
\* of its level or a shallower one; and so on inside each run.
RECURSIVE SubtreesAreRuns(_, _, _)
SubtreesAreRuns(nodes, flat, depth) ==
    LET at == SelectSeq([k \in 1..Len(flat) |-> k], LAMBDA k : flat[k][1] = depth)
    IN  /\ Len(nodes) = Len(at)
        /\ \A k \in 1..Len(nodes) :
             LET run == SubSeq(flat, at[k] + 1, RunEnd(flat, at[k]) - 1)
             IN  /\ nodes[k].level = flat[at[k]][1]
                 /\ nodes[k].title = flat[at[k]][2]
                 /\ Preorder(nodes[k].children) = run
                 /\ SubtreesAreRuns(nodes[k].children, run, depth + 1)

\* C1 as claimed: for every heading that became a node, the nodes of its
\* subtree are exactly the headings that follow it up to, not including, the
\* next heading of its level or a shallower one.
C1_SubtreeIsFollowingRun ==
    pc = "outline_done" => SubtreesAreRuns(outline, entries, 1)

\* The leading run of '#' is non-empty and a space or the end of the line
\* follows it.
HashRunClosed(line) ==
    LET run == LeadingHashes(line)
    IN  run >= 1 /\ (Len(line) = run \/ line[run + 1] = " ")

\* C3 as claimed: parse_outline records a line as a heading only when its
\* leading run of '#' is followed by a space or by the end of the line.
C3_HeadingNeedsSpaceOrEnd ==
    [][(pc = "parse_outline" /\ entries' # entries) => HashRunClosed(CurrentLine)]_vars

\* The levels of the entries of flat.
LevelsOf(flat) == {flat[k][1] : k \in 1..Len(flat)}

\* The (level, title) pairs of the nodes themselves, without their subtrees.
RootsOf(nodes) == [k \in 1..Len(nodes) |-> <<nodes[k].level, nodes[k].title>>]

\* C18 as claimed: when no heading has level 1, the roots of the outline are
\* the headings of the shallowest level present, in order.
C18_ShallowestLevelIsRoot ==
    (pc = "outline_done" /\ entries # <<>> /\ 1 \notin LevelsOf(entries)) =>
        LET top == CHOOSE l \in LevelsOf(entries) : \A m \in LevelsOf(entries) : l <= m
        IN  RootsOf(outline) = SelectSeq(entries, LAMBDA e : e[1] = top)

\* a is b with some of its elements left out.
RECURSIVE IsSubsequence(_, _)
IsSubsequence(a, b) ==
    IF a = <<>> THEN TRUE
    ELSE IF b = <<>> THEN FALSE
    ELSE IF Head(a) = Head(b) THEN IsSubsequence(Tail(a), Tail(b))
    ELSE IsSubsequence(a, Tail(b))

\* The entries from the first one of level 1 on.
FromFirstLevel1(flat) ==
    LET ones == {k \in 1..Len(flat) : flat[k][1] = 1}
    IN  IF ones = {} THEN <<>>
        ELSE SubSeq(flat, CHOOSE k \in ones : \A q \in ones : k <= q, Len(flat))

C20_LevelIsRunCappedAtSix ==
    [][(pc = "parse_outline" /\ line_no < Len(Lines(text))) =>
         LET run == LeadingHashes(CurrentLine)
             level == IF run < 6 THEN run ELSE 6
             recorded == <<level, trim(SubSeq(CurrentLine, level + 1, Len(CurrentLine)))>>
         IN  /\ entries' = entries \/ entries' = Append(entries, recorded)
             /\ run >= 2 => entries' = Append(entries, recorded)
             /\ run = 0 => entries' = entries]_vars

C20_Witness ==
    /\ pc = "outline_done"
    /\ Len(entries) >= 2
    /\ Lines(text)[Len(Lines(text))] = Repeat("#", 7) \o <<" ", "a">>
    /\ entries[Len(entries)] = <<6, <<"#", " ", "a">> >>

\* Every node of the forest at tree depth d has level d, within 1..6.
RECURSIVE LevelsAreDepths(_, _)
LevelsAreDepths(nodes, d) ==
    \A k \in 1..Len(nodes) :
        /\ nodes[k].level = d
        /\ d \in 1..6
        /\ LevelsAreDepths(nodes[k].children, d + 1)

\* C21: every entry of parse_outline's result has a level in 1..6 equal to
\* its depth in the tree: roots have level 1, a child has its parent's level
\* plus one.
C21_LevelIsDepth ==
    pc = "outline_done" => LevelsAreDepths(outline, 1)

C21_Witness ==
    /\ pc = "outline_done"
    /\ Len(outline) = 1 /\ Len(outline[1].children) = 1
    /\ Len(outline[1].children[1].children) = 1
    /\ outline[1].children[1].children[1].level = 3
    /\ Len(entries) = 4

\* The lines parse_outline classifies as headings, by their first two bytes.
IsOutlineHeading(line) ==
    /\ Len(line) >= 1 /\ line[1] = "#"
    /\ Len(line) = 1 \/ line[2] \in {"#", " "}

NoHeadingLines(s) ==
    \A k \in 1..Len(Lines(s)) : ~IsOutlineHeading(Lines(s)[k])

\* C5: parse_outline returns the empty sequence for the empty string and for
\* every text none of whose lines is classified as a heading.
C5_NoHeadingsEmptyOutline ==
    (pc = "outline_done" /\ NoHeadingLines(text)) => outline = <<>>

C5_Witness ==
    /\ pc = "outline_done"
    /\ NoHeadingLines(text)
    /\ Len(Lines(text)) >= 2
    /\ contains(text, <<"#">>)
    /\ outline = <<>>

\* C2: parse_outline and the line loop of render_markdown never panic (no
\* index or slice out of range) and reach their return for every input text:
\* until a function has returned one of its steps can be taken, and every step
\* consumes one line of the finitely many or returns.
C2_NeverFails ==
    /\ [](~panicked /\ pc # "panic")
    /\ [](line_no <= Len(Lines(text)))
    /\ [](pc = "parse_outline" => HasLine("parse_outline") \/ AtEnd("parse_outline"))
    /\ [](pc = "render_markdown" =>
            \/ AtFenceLine \/ AtCodeLine \/ AtBlankLine \/ AtBlockLine
            \/ AtEnd("render_markdown"))
    /\ [][\/ pc' = pc /\ line_no' = line_no + 1
          \/ pc = "parse_outline" /\ pc' = "outline_done"
          \/ pc = "render_markdown" /\ pc' = "render_done"]_vars

C2_Witness ==
    /\ pc = "render_done"
    /\ in_code_block
    /\ Len(blocks) >= 2
    /\ ~panicked

\* ------------------------------------------------------- the objects panel
\* draw_objects_panel draws the list and the add row, then applies the
\* mutations it deferred while drawing.  One frame handles one click.

MaxObjects == 3

\* new_obj_name as typed by the user
ObjectNameInputs == {<<>>, <<" ">>, <<"a">>, <<" ", "b", " ">>}

\* A WorldObject.  obj says which WorldObject::new call made the value: two
\* objects of the same name are still two objects.
WorldObject(obj, name) == [obj |-> obj, name |-> name]

NewObject ==
    CHOOSE n \in 1..(Len(world_objects) + 1) :
        /\ \A k \in 1..Len(world_objects) : world_objects[k].obj # n
        /\ \A m \in 1..(n - 1) :
              \E k \in 1..Len(world_objects) : world_objects[k].obj = m

\* Vec::remove(i), i counted from 0
VecRemove(v, k) == SubSeq(v, 1, k) \o SubSeq(v, k + 2, Len(v))

ObjectsState == [world_objects |-> world_objects,
                 selected_obj_idx |-> selected_obj_idx]

\* if ui.button("add").clicked() { let name = new_obj_name.trim(); ... }
AddObjectButton(st, typed) ==
    LET name == trim(typed)
    IN  IF name # <<>>
        THEN LET idx == Len(st.world_objects)
             IN  [world_objects |->
                      Append(st.world_objects, WorldObject(NewObject, name)),
                  selected_obj_idx |-> Some(idx)]
        ELSE st

\* The same with the selection left where a removal before it put it.
ApplyDeferredObjects_KeepIndex(st, open_obj, remove_obj) ==
    LET opened == IF open_obj.some
                  THEN [st EXCEPT !.selected_obj_idx = Some(open_obj.val)]
                  ELSE st
    IN  IF remove_obj.some
        THEN LET k == remove_obj.val
                 s == opened.selected_obj_idx
             IN  [world_objects |-> VecRemove(opened.world_objects, k),
                  selected_obj_idx |->
                      IF s.some /\ s.val = k THEN None ELSE s]
        ELSE opened

\* if let Some(i) = open_obj { .. }  if let Some(i) = remove_obj { .. }
ApplyDeferredObjects(st, open_obj, remove_obj) ==
    LET opened == IF open_obj.some
                  THEN [st EXCEPT !.selected_obj_idx = Some(open_obj.val)]
                  ELSE st
    IN  IF remove_obj.some
        THEN LET k == remove_obj.val
                 s == opened.selected_obj_idx
             IN  [world_objects |-> VecRemove(opened.world_objects, k),
                  selected_obj_idx |->
                      IF s.some /\ s.val = k THEN None
                      ELSE IF s.some /\ s.val > k THEN Some(s.val - 1)
                      ELSE s]
        ELSE opened

ObjectsSet(st) ==
    /\ world_objects' = st.world_objects
    /\ selected_obj_idx' = st.selected_obj_idx
    /\ UNCHANGED <<text, spans, pc, inlineVars, panicked, helperVars, line_no,
                   outlineVars, renderVars, structVars, editorVars>>

ListedObjects == 0..(Len(world_objects) - 1)

\* a frame in which the add button is clicked
AddObjectClick ==
    /\ pc = "objects_panel"
    /\ Len(world_objects) < MaxObjects
    /\ \E typed \in ObjectNameInputs :
          ObjectsSet(ApplyDeferredObjects(AddObjectButton(ObjectsState, typed),
                                          None, None))

\* a frame in which a list entry is clicked
OpenObjectClick ==
    /\ pc = "objects_panel"
    /\ \E k \in ListedObjects :
          ObjectsSet(ApplyDeferredObjects(ObjectsState, Some(k), None))

\* a frame in which "delete" of a list entry's context menu is clicked
RemoveObjectClick ==
    /\ pc = "objects_panel"
    /\ \E k \in ListedObjects :
          ObjectsSet(ApplyDeferredObjects(ObjectsState, None, Some(k)))

InitObjects ==
    /\ text = <<>> /\ spans = UnknownSpans
    /\ pc = "objects_panel"
    /\ Idle

NextObjects == AddObjectClick \/ OpenObjectClick \/ RemoveObjectClick

SpecObjects == InitObjects /\ [][NextObjects]_vars

\* ---------------------------------------------------------- objects: claims

\* The object the selection stands on; 0 for no selection, -1 for an index
\* that is not in the list.
SelectedObject(objs, sel) ==
    IF ~sel.some THEN 0
    ELSE IF sel.val \in 0..(Len(objs) - 1) THEN objs[sel.val + 1].obj
    ELSE -1

ObjectsOf(objs) == {objs[k].obj : k \in 1..Len(objs)}

\* C27: selected_obj_idx is None or a valid index into world_objects after
\* every add, select and remove; a removal of the selected object clears the
\* selection, and a removal of any other object leaves the selection on the
\* object it was on.
C27_SelectionFollowsObject ==
    /\ [](SelectedObject(world_objects, selected_obj_idx) >= 0)
    /\ [][Len(world_objects') < Len(world_objects) =>
            LET was == SelectedObject(world_objects, selected_obj_idx)
                now == SelectedObject(world_objects', selected_obj_idx')
            IN  IF was \in ObjectsOf(world_objects')
                THEN now = was
                ELSE now = 0]_vars

\* Three objects were added, the third is selected, and the second has been
\* removed: the selection moved from index 2 to index 1 with its object.
C27_Witness ==
    /\ pc = "objects_panel"
    /\ Len(world_objects) = 2
    /\ world_objects[1].obj = 1 /\ world_objects[2].obj = 3
    /\ selected_obj_idx = Some(1)

\* ----------------------------------------------------- the structure panel
\* draw_structure_panel draws the tree (a click on a label selects at once),
\* applies the tree mutations it deferred, then draws the editor of the
\* selected node.  One frame handles one click.

MaxNodes == 4

\* new_node_title as typed by the user
NodeTitleInputs == {<<>>, <<" ">>, <<"t">>}

\* format!("新{}", child_kind.label())
NewChildTitle == <<"n">>

\* A StructNode.  node says which StructNode::new call made the value.
StructNode(node, title) == [node |-> node, title |-> title, children |-> <<>>]

RECURSIVE NodesIn(_)
NodesIn(nodes) ==
    UNION {{nodes[k].node} \cup NodesIn(nodes[k].children) : k \in 1..Len(nodes)}

\* the cur_path of every label draw_struct_tree draws
RECURSIVE PathsIn(_)
PathsIn(nodes) ==
    UNION {{<<k - 1>>} \cup {<<k - 1>> \o q : q \in PathsIn(nodes[k].children)}
           : k \in 1..Len(nodes)}

NewNode ==
    CHOOSE n \in 1..(Cardinality(NodesIn(struct_roots)) + 1) :
        /\ n \notin NodesIn(struct_roots)
        /\ \A m \in 1..(n - 1) : m \in NodesIn(struct_roots)

RECURSIVE node_at(_, _)
node_at(roots, path) ==
    IF path = <<>> THEN None
    ELSE IF path[1] >= Len(roots) THEN None
    ELSE LET node == roots[path[1] + 1]
         IN  IF Len(path) = 1 THEN Some(node)
             ELSE node_at(node.children, Tail(path))

\* Writing through the reference node_at_mut returned for path.
RECURSIVE WriteAt(_, _, _)
WriteAt(roots, path, node) ==
    IF Len(path) = 1 THEN [roots EXCEPT ![path[1] + 1] = node]
    ELSE [roots EXCEPT ![path[1] + 1].children = WriteAt(@, Tail(path), node)]

Front(s) == SubSeq(s, 1, Len(s) - 1)

\* Vec::swap(a, b), counted from 0
VecSwap(v, a, b) == [v EXCEPT ![a + 1] = v[b + 1], ![b + 1] = v[a + 1]]

remove_node_at(roots, path) ==
    IF path = <<>> THEN roots
    ELSE IF Len(path) = 1
    THEN IF path[1] < Len(roots) THEN VecRemove(roots, path[1]) ELSE roots
    ELSE LET parent == node_at(roots, Front(path))
             idx == path[Len(path)]
         IN  IF parent.some /\ idx < Len(parent.val.children)
             THEN WriteAt(roots, Front(path),
                          [parent.val EXCEPT !.children = VecRemove(@, idx)])
             ELSE roots

move_node_up(roots, path) ==
    IF path = <<>> THEN roots
    ELSE LET idx == path[Len(path)]
         IN  IF idx = 0 THEN roots
             ELSE IF Len(path) = 1 THEN VecSwap(roots, idx - 1, idx)
             ELSE LET parent == node_at(roots, Front(path))
                  IN  IF parent.some /\ idx < Len(parent.val.children)
                      THEN WriteAt(roots, Front(path),
                                   [parent.val EXCEPT
                                       !.children = VecSwap(@, idx - 1, idx)])
                      ELSE roots

StructureState == [struct_roots |-> struct_roots,
                   selected_node_path |-> selected_node_path]

\* if let Some((title, kind)) = add_root { .. }
ApplyAddRoot(st, add_root) ==
    IF add_root.some
    THEN LET idx == Len(st.struct_roots)
         IN  [struct_roots |->
                  Append(st.struct_roots, StructNode(NewNode, add_root.val)),
              selected_node_path |-> <<idx>>]
    ELSE st

\* if let Some((parent_path, title, kind)) = add_child { .. }
ApplyAddChild(st, add_child) ==
    IF add_child.some
    THEN LET parent_path == add_child.val
             parent == node_at(st.struct_roots, parent_path)
         IN  IF parent.some
             THEN LET child_idx == Len(parent.val.children)
                      grown == [parent.val EXCEPT !.children =
                                   Append(@, StructNode(NewNode, NewChildTitle))]
                  IN  [struct_roots |->
                           WriteAt(st.struct_roots, parent_path, grown),
                       selected_node_path |-> Append(parent_path, child_idx)]
             ELSE st
    ELSE st

\* if let Some(path) = remove_node { .. }
ApplyRemoveNode(st, remove_node) ==
    IF remove_node.some
    THEN LET path == remove_node.val
         IN  [struct_roots |-> remove_node_at(st.struct_roots, path),
              selected_node_path |->
                  IF starts_with(st.selected_node_path, path)
                  THEN <<>>
                  ELSE st.selected_node_path]
    ELSE st

\* if let Some(path) = move_up { .. }
ApplyMoveUp(st, move_up) ==
    IF move_up.some
    THEN LET path == move_up.val
             moved == move_node_up(st.struct_roots, path)
         IN  IF path # <<>> /\ path[Len(path)] > 0
             THEN LET new_path == [path EXCEPT ![Len(path)] = @ - 1]
                  IN  [struct_roots |-> moved,
                       selected_node_path |->
                           IF st.selected_node_path = path
                           THEN new_path
                           ELSE st.selected_node_path]
             ELSE [st EXCEPT !.struct_roots = moved]
    ELSE st

ApplyDeferredStructure(st, add_root, add_child, remove_node, move_up) ==
    ApplyMoveUp(ApplyRemoveNode(ApplyAddChild(ApplyAddRoot(st, add_root),
                                              add_child),
                                remove_node),
                move_up)

\* the add-child button of the node editor, and the selection update after it
InlineAddChild(st) ==
    LET path == st.selected_node_path
        node == node_at(st.struct_roots, path)
        child_idx == Len(node.val.children)
        grown == [node.val EXCEPT !.children =
                     Append(@, StructNode(NewNode, NewChildTitle))]
    IN  [struct_roots |-> WriteAt(st.struct_roots, path, grown),
         selected_node_path |-> Append(path, child_idx)]

StructureSet(st) ==
    /\ struct_roots' = st.struct_roots
    /\ selected_node_path' = st.selected_node_path
    /\ UNCHANGED <<text, spans, pc, inlineVars, panicked, helperVars, line_no,
                   outlineVars, renderVars, objVars, editorVars>>

HasRoomForNode == Cardinality(NodesIn(struct_roots)) < MaxNodes

\* a frame in which the add-root button is clicked
AddRootClick ==
    /\ pc = "structure_panel"
    /\ HasRoomForNode
    /\ \E typed \in NodeTitleInputs :
          LET title == trim(typed)
              add_root == IF title # <<>> THEN Some(title) ELSE None
          IN  StructureSet(ApplyDeferredStructure(StructureState, add_root,
                                                  None, None, None))

\* a frame in which a label of the tree is clicked
SelectNodeClick ==
    /\ pc = "structure_panel"
    /\ \E cur_path \in PathsIn(struct_roots) :
          StructureSet(ApplyDeferredStructure(
              [StructureState EXCEPT !.selected_node_path = cur_path],
              None, None, None, None))

\* a frame in which "add child" of a label's context menu is clicked
AddChildClick ==
    /\ pc = "structure_panel"
    /\ HasRoomForNode
    /\ \E cur_path \in PathsIn(struct_roots) :
          StructureSet(ApplyDeferredStructure(StructureState, None,
                                              Some(cur_path), None, None))

\* a frame in which "delete" of a label's context menu is clicked
RemoveNodeClick ==
    /\ pc = "structure_panel"
    /\ \E cur_path \in PathsIn(struct_roots) :
          StructureSet(ApplyDeferredStructure(StructureState, None, None,
                                              Some(cur_path), None))

\* a frame in which "move up" of a label's context menu is clicked; the menu
\* has the entry only if i > 0
MoveUpClick ==
    /\ pc = "structure_panel"
    /\ \E cur_path \in PathsIn(struct_roots) :
          /\ cur_path[Len(cur_path)] > 0
          /\ StructureSet(ApplyDeferredStructure(StructureState, None, None,
                                                 None, Some(cur_path)))

\* a frame in which the add-child button of the node editor is clicked; the
\* editor is drawn only if the selected path leads to a node
InlineAddChildClick ==
    /\ pc = "structure_panel"
    /\ HasRoomForNode
    /\ selected_node_path # <<>>
    /\ node_at(struct_roots, selected_node_path).some
    /\ StructureSet(InlineAddChild(
           ApplyDeferredStructure(StructureState, None, None, None, None)))

InitStructure ==
    /\ text = <<>> /\ spans = UnknownSpans
    /\ pc = "structure_panel"
    /\ Idle

NextStructure ==
    \/ AddRootClick
    \/ SelectNodeClick
    \/ AddChildClick
    \/ RemoveNodeClick
    \/ MoveUpClick
    \/ InlineAddChildClick

SpecStructure == InitStructure /\ [][NextStructure]_vars

\* -------------------------------------------------------- structure: claims

\* The node the selection stands on; 0 for the empty path, -1 for a path
\* that leads to no node.
SelectedNode(roots, path) ==
    IF path = <<>> THEN 0
    ELSE IF node_at(roots, path).some THEN node_at(roots, path).val.node
    ELSE -1

\* C28: after every operation that changes the tree (add root, add child,
\* remove, move up) selected_node_path is empty, or leads to the node that
\* was selected before the operation, or leads to the node just added.
C28_SelectionFollowsNode ==
    [][struct_roots' # struct_roots =>
          LET was == SelectedNode(struct_roots, selected_node_path)
              now == SelectedNode(struct_roots', selected_node_path')
          IN  \/ selected_node_path' = <<>>
              \/ now > 0 /\ now = was
              \/ now > 0 /\ now \notin NodesIn(struct_roots)]_vars

\* --------------------------------------------------------------- the editors
\* update() runs handle_keyboard, then draws the file tree and the two
\* editors.  One frame handles one input event; a frame without an event
\* changes nothing.  The arms that only write the status line (a file that
\* cannot be read or written) are not modelled.

UndoLimit == 200

MaxFrames == 4

\* what a pane's TextEdit can hold after the user typed or pasted
TypedContents == {<<"a">>, <<"b">>}

\* std::fs::read_to_string(path) of the files of the project
DiskContents == {<<"a">>}

Extensions == {"md", "json"}

\* self.llm_output when it is not empty
LlmOutput == <<"L">>

\* OpenFile::new(path, content); of the path only the extension is kept
OpenFile(ext, content) == [ext |-> ext, content |-> content, modified |-> FALSE]

is_markdown(f) == f.ext = "md"

is_json(f) == f.ext = "json"

\* serde_json::to_string_pretty(&parse_outline(&lf.content)): a text that the
\* markdown determines and that no TextEdit input of the model equals
OutlineJson(markdown) == <<"[">> \o markdown \o <<"]">>

EditorsState ==
    [left_file |-> left_file, right_file |-> right_file,
     left_undo_stack |-> left_undo_stack,
     right_undo_stack |-> right_undo_stack,
     last_focused_left |-> last_focused_left]

\* The same without the limit on the length.
PushUndo_Unlimited(undo_stack, prev) == Append(undo_stack, prev)

\* undo_stack.push_back(prev); if undo_stack.len() > 200 { pop_front() }
PushUndo(undo_stack, prev) ==
    LET pushed == Append(undo_stack, prev)
    IN  IF Len(pushed) > UndoLimit THEN Tail(pushed) ELSE pushed

\* The body of `if let Some(f) = &mut self.left_file` (and of the right one)
\* in a frame in which the TextEdit has the focus: changed is resp.changed(),
\* typed is what the TextEdit left in f.content.
EditorPane(f, undo_stack, changed, typed) ==
    LET prev == f.content
    IN  IF changed
        THEN [file |-> [f EXCEPT !.content = typed, !.modified = TRUE],
              undo_stack |-> IF prev # typed
                             THEN PushUndo(undo_stack, prev)
                             ELSE undo_stack]
        ELSE [file |-> f, undo_stack |-> undo_stack]

draw_left_editor(st, changed, typed) ==
    IF st.left_file.some
    THEN LET pane == EditorPane(st.left_file.val, st.left_undo_stack,
                                changed, typed)
         IN  [st EXCEPT !.left_file = Some(pane.file),
                        !.left_undo_stack = pane.undo_stack,
                        !.last_focused_left = TRUE]
    ELSE st

draw_right_editor(st, changed, typed) ==
    IF st.right_file.some
    THEN LET pane == EditorPane(st.right_file.val, st.right_undo_stack,
                                changed, typed)
         IN  [st EXCEPT !.right_file = Some(pane.file),
                        !.right_undo_stack = pane.undo_stack,
                        !.last_focused_left = FALSE]
    ELSE st

\* open_file_in_pane, Ok arm
open_file_in_pane(st, ext, content, left) ==
    IF left
    THEN [st EXCEPT !.left_file = Some(OpenFile(ext, content)),
                    !.left_undo_stack = <<>>]
    ELSE [st EXCEPT !.right_file = Some(OpenFile(ext, content)),
                    !.right_undo_stack = <<>>]

\* OpenFile::save, Ok arm
save(file) ==
    IF file.some THEN Some([file.val EXCEPT !.modified = FALSE]) ELSE file

\* the Ctrl+Z arm of handle_keyboard
Undo(st) ==
    IF st.last_focused_left
    THEN IF st.left_undo_stack # <<>>
         THEN LET prev == st.left_undo_stack[Len(st.left_undo_stack)]
                  popped == [st EXCEPT !.left_undo_stack = Front(@)]
              IN  IF st.left_file.some
                  THEN [popped EXCEPT !.left_file =
                           Some([@.val EXCEPT !.content = prev,
                                              !.modified = TRUE])]
                  ELSE popped
         ELSE st
    ELSE IF st.right_undo_stack # <<>>
         THEN LET prev == st.right_undo_stack[Len(st.right_undo_stack)]
                  popped == [st EXCEPT !.right_undo_stack = Front(@)]
              IN  IF st.right_file.some
                  THEN [popped EXCEPT !.right_file =
                           Some([@.val EXCEPT !.content = prev,
                                              !.modified = TRUE])]
                  ELSE popped
         ELSE st

\* handle_keyboard with the three shortcuts it reads
handle_keyboard(st, ctrl_s, ctrl_shift_s, ctrl_z) ==
    LET saved_left == IF ctrl_s
                      THEN [st EXCEPT !.left_file = save(@)]
                      ELSE st
        saved_right == IF ctrl_shift_s
                       THEN [saved_left EXCEPT !.right_file = save(@)]
                       ELSE saved_left
    IN  IF ctrl_z THEN Undo(saved_right) ELSE saved_right

sync_outline_to_right(st) ==
    IF st.left_file.some /\ is_markdown(st.left_file.val)
    THEN IF st.right_file.some /\ is_json(st.right_file.val)
         THEN [st EXCEPT !.right_file =
                  Some([@.val EXCEPT
                           !.content = OutlineJson(st.left_file.val.content),
                           !.modified = TRUE])]
         ELSE st
    ELSE st

\* the insert button of the LLM panel, llm_output not empty
InsertLlmOutput(st) ==
    IF st.left_file.some
    THEN [st EXCEPT !.left_file =
             Some([@.val EXCEPT
                      !.content = @ \o <<"\n", "\n">> \o LlmOutput,
                      !.modified = TRUE])]
    ELSE st

\* The content a pane had before its latest change, for a frame that took
\* the pane from file was to file now.
BeforeChange(was, now, before) ==
    IF was.some /\ now.some /\ now.val.content # was.val.content
    THEN Some(was.val.content)
    ELSE before

EditorsSet(st, ev) ==
    /\ left_file' = st.left_file
    /\ right_file' = st.right_file
    /\ left_undo_stack' = st.left_undo_stack
    /\ right_undo_stack' = st.right_undo_stack
    /\ last_focused_left' = st.last_focused_left
    /\ left_before_change' =
           IF ev = "open_left" THEN None
           ELSE BeforeChange(left_file, st.left_file, left_before_change)
    /\ right_before_change' =
           IF ev = "open_right" THEN None
           ELSE BeforeChange(right_file, st.right_file, right_before_change)
    /\ frames' = frames + 1
    /\ event' = ev
    /\ UNCHANGED <<text, spans, pc, inlineVars, panicked, helperVars, line_no,
                   outlineVars, renderVars, objVars, structVars>>

InFrame == pc = "editors" /\ frames < MaxFrames

\* a frame in which a file of the tree is opened in a pane
OpenFileClick ==
    /\ InFrame
    /\ \E left \in BOOLEAN, ext \in Extensions, content \in DiskContents :
          EditorsSet(open_file_in_pane(EditorsState, ext, content, left),
                     IF left THEN "open_left" ELSE "open_right")

\* a frame in which the left TextEdit has the focus
EditLeft ==
    /\ InFrame
    /\ left_file.some
    /\ \/ EditorsSet(draw_left_editor(EditorsState, FALSE, <<>>), "focus_left")
       \/ \E typed \in TypedContents :
             EditorsSet(draw_left_editor(EditorsState, TRUE, typed),
                        "edit_left")

\* a frame in which the right TextEdit has the focus
EditRight ==
    /\ InFrame
    /\ right_file.some
    /\ \/ EditorsSet(draw_right_editor(EditorsState, FALSE, <<>>),
                     "focus_right")
       \/ \E typed \in TypedContents :
             EditorsSet(draw_right_editor(EditorsState, TRUE, typed),
                        "edit_right")

\* a frame in which Ctrl+S or Ctrl+Shift+S is pressed
SaveKey ==
    /\ InFrame
    /\ \E shift \in BOOLEAN :
          EditorsSet(handle_keyboard(EditorsState, ~shift, shift, FALSE),
                     IF shift THEN "save_right" ELSE "save_left")

\* a frame in which Ctrl+Z is pressed
UndoKey ==
    /\ InFrame
    /\ EditorsSet(handle_keyboard(EditorsState, FALSE, FALSE, TRUE), "undo")

\* a frame in which the sync button of the editors is clicked
SyncClick ==
    /\ InFrame
    /\ EditorsSet(sync_outline_to_right(EditorsState), "sync")

\* a frame in which the insert button of the LLM panel is clicked
InsertLlmClick ==
    /\ InFrame
    /\ EditorsSet(InsertLlmOutput(EditorsState), "llm_insert")

\* A pane in which a file holding "a" was opened and n changing edits were
\* typed, "b" and "a" in turn: the k-th edit pushed what the k - 1 before it
\* had left, and the stack holds the pushes of the last UndoLimit edits.
AfterEdits(ext, n) ==
    LET kept == IF n > UndoLimit THEN UndoLimit ELSE n
        Typed(k) == IF k % 2 = 0 THEN <<"a">> ELSE <<"b">>
    IN  [file |-> [ext |-> ext, content |-> Typed(n), modified |-> n > 0],
         undo_stack |-> [k \in 1..kept |-> Typed(n - kept + k - 1)]]

\* the numbers of edits a pane starts with
EditHistories == {1, UndoLimit - 1, UndoLimit}

\* Init: the state after construction, or with a file open in one or both
\* panes in which the user has typed for a while.
InitEditors ==
    /\ text = <<>> /\ spans = UnknownSpans
    /\ pc = "editors"
    /\ MarkdownIdle /\ ObjectsIdle /\ StructureIdle
    /\ frames = 0 /\ event = "none"
    /\ \/ left_file = None /\ left_undo_stack = <<>>
          /\ left_before_change = None
       \/ \E n \in EditHistories :
             LET pane == AfterEdits("md", n)
             IN  /\ left_file = Some(pane.file)
                 /\ left_undo_stack = pane.undo_stack
                 /\ left_before_change =
                        Some(pane.undo_stack[Len(pane.undo_stack)])
    /\ \/ right_file = None /\ right_undo_stack = <<>>
          /\ right_before_change = None
       \/ \E n \in EditHistories :
             LET pane == AfterEdits("json", n)
             IN  /\ right_file = Some(pane.file)
                 /\ right_undo_stack = pane.undo_stack
                 /\ right_before_change =
                        Some(pane.undo_stack[Len(pane.undo_stack)])
    /\ last_focused_left \in BOOLEAN
    /\ last_focused_left \/ right_file.some

NextEditors ==
    \/ OpenFileClick
    \/ EditLeft
    \/ EditRight
    \/ SaveKey
    \/ UndoKey
    \/ SyncClick
    \/ InsertLlmClick

SpecEditors == InitEditors /\ [][NextEditors]_vars

\* ---------------------------------------------------------- editors: claims

EditFrame(ev) == event' = ev /\ frames' = frames + 1

\* what push_back(prev) and the pop_front at the limit leave of a stack
PushedAtLimit(undo_stack, prev) ==
    IF Len(undo_stack) < UndoLimit
    THEN Append(undo_stack, prev)
    ELSE Append(Tail(undo_stack), prev)

\* C29: neither undo stack ever holds more than 200 entries; an edit that
\* changes a pane's content pushes the content it replaced and, at the
\* limit, drops the oldest entry; opening a file in a pane empties the
\* pane's stack; a pane with a non-empty stack has an open file.
C29_UndoStackBounded ==
    /\ [](Len(left_undo_stack) <= UndoLimit)
    /\ [](Len(right_undo_stack) <= UndoLimit)
    /\ [](left_undo_stack # <<>> => left_file.some)
    /\ [](right_undo_stack # <<>> => right_file.some)
    /\ [][EditFrame("edit_left")
            /\ left_file'.val.content # left_file.val.content =>
          left_undo_stack' =
              PushedAtLimit(left_undo_stack, left_file.val.content)]_vars
    /\ [][EditFrame("edit_right")
            /\ right_file'.val.content # right_file.val.content =>
          right_undo_stack' =
              PushedAtLimit(right_undo_stack, right_file.val.content)]_vars
    /\ [][EditFrame("open_left") => left_undo_stack' = <<>>]_vars
    /\ [][EditFrame("open_right") => right_undo_stack' = <<>>]_vars

\* The left stack is full and its oldest entry is the second content ever
\* replaced: an edit at the limit has dropped the first.
C29_Witness ==
    /\ pc = "editors"
    /\ event = "edit_left"
    /\ Len(left_undo_stack) = UndoLimit
    /\ left_undo_stack[1] = <<"b">>
    /\ left_undo_stack[UndoLimit] = <<"a">>
    /\ left_file.val.content = <<"b">>

UndoFrameFor(left) ==
    /\ EditFrame("undo")
    /\ last_focused_left = left
    /\ IF left THEN left_undo_stack # <<>> ELSE right_undo_stack # <<>>

\* C30: a Ctrl+Z frame with a non-empty stack in the last-focused pane sets
\* that pane's content to the content it had before its latest change,
\* whichever operation made the change, marks the file modified, and leaves
\* the other pane's content and stack as they were.
C30_UndoRevertsLatestChange ==
    [][/\ UndoFrameFor(TRUE) =>
            /\ left_file'.some /\ left_before_change.some
            /\ left_file'.val.content = left_before_change.val
            /\ left_file'.val.modified
            /\ right_file' = right_file
            /\ right_undo_stack' = right_undo_stack
       /\ UndoFrameFor(FALSE) =>
            /\ right_file'.some /\ right_before_change.some
            /\ right_file'.val.content = right_before_change.val
            /\ right_file'.val.modified
            /\ left_file' = left_file
            /\ left_undo_stack' = left_undo_stack]_vars
====
